---- MODULE Spec2Model ----
(***************************************************************************)
(* A model of owls-hep: expressions, regions and processes (the object     *)
(* model), the persistently cached calculations with the histogram         *)
(* batcher, and the estimation fold.                                       *)
(*                                                                         *)
(* Strings are sequences of one-character strings, so that the regular     *)
(* expression of expression.py and the string formatting of _combined are  *)
(* computed character by character.                                        *)
(*                                                                         *)
(* Python's hash() is modelled as an ideal hash: the tuple of the hashed   *)
(* components.  Two hashes are equal exactly when the hashed tuples are.   *)
(*                                                                         *)
(* The functions of expression.py, algebra.py and uncertainty.py and the   *)
(* constructors of Binning and Histogram are operators; each has a         *)
(* specification that draws the arguments of a call from a bounded set and *)
(* applies the function.  ROOT histograms are objects: a value refers to a *)
(* histogram by its identity, and the contents are held in a heap.         *)
(***************************************************************************)
EXTENDS Integers, Sequences, FiniteSets, TLC

VARIABLES
    regions,       \* heap of Region objects, indexed by identity
    processes,     \* heap of Process objects, indexed by identity
    last,          \* the last object operation: its receiver, argument and result
    store,         \* persistent cache: key -> stored value
    computations,  \* key of a call -> number of runs of the underlying function
    ret,           \* the last cached call and what it returned
    pending,       \* calls recorded for parallel execution, in call order
    bcalls,        \* the args_kwargs list of the running batch
    bidx,          \* number of calls of the batch the batcher has gone through
    bhints,        \* all_properties of the running batch
    bpc,           \* position of _parallel_batcher
    invoked,       \* the invocations of the callable made by the batcher
    loaderCache,   \* keys held by the transient cache of _caching_loader
    loads,         \* number of process.load calls made during the batch
    berror,        \* what the callable raised in the batch, if it raised
    ncalls,        \* calls of _count and _histogram made so far
    ecomps,        \* Estimation.__call__: the components
    eidx,          \* Estimation.__call__: components folded so far
    eresult,       \* Estimation.__call__: the running result
    epc,           \* Estimation.__call__: position
    ecalls,        \* Estimation.__call__: invocations of the underlying calculation
    ewc,           \* Estimation.__call__: weighted_combination
    fin,           \* a function of the library: the arguments of its call
    fop,           \* a function of the library: which one was called
    fout           \* a function of the library: what the call returned

objVars == <<regions, processes, last>>
cacheVars == <<store, computations, ret, pending, bcalls, bidx, bhints, bpc,
               invoked, loaderCache, loads, berror, ncalls>>
estVars == <<ecomps, eidx, eresult, epc, ecalls, ewc>>
fnVars == <<fin, fop, fout>>
vars == <<regions, processes, last, store, computations, ret, pending, bcalls,
          bidx, bhints, bpc, invoked, loaderCache, loads, berror, ncalls, ecomps,
          eidx, eresult, epc, ecalls, ewc, fin, fop, fout>>

----------------------------------------------------------------------------
(* Bounds *)

\* Objects (regions and processes together) the heaps may hold.
MaxObjects == 4

\* Variations of one region, patches of one process.
MaxChain == 2

\* Calls of _count and _histogram the analysis makes.
MaxCalls == 3
MaxComponents == 3

----------------------------------------------------------------------------
(* Characters and strings *)

\* [A-Za-z_] of the regular expression
Letter == {"a", "b", "c", "d", "e", "f", "g", "h", "i", "j", "k", "l", "m",
           "n", "o", "p", "q", "r", "s", "t", "u", "v", "w", "x", "y", "z",
           "A", "B", "C", "D", "E", "F", "G", "H", "I", "J", "K", "L", "M",
           "N", "O", "P", "Q", "R", "S", "T", "U", "V", "W", "X", "Y", "Z",
           "_"}

Digit == {"0", "1", "2", "3", "4", "5", "6", "7", "8", "9"}

\* \w of the regular expression
WordChar == Letter \cup Digit

\* \s of the regular expression
Space == {" "}

\* The string literals the model uses.
EmptyStr == << >>
Str_x_gt_0 == <<"x", ">", "0">>
Str_x_lt_0 == <<"x", "<", "0">>
Str_w == <<"w">>
Str_a == <<"a">>
Str_b == <<"b">>
Str_x == <<"x">>
Str_abs_x == <<"a", "b", "s", "(", "x", ")">>
Str_tree_weight == <<"t", "r", "e", "e", "_", "w", "e", "i", "g", "h", "t">>

----------------------------------------------------------------------------
(* expression.py *)

\* str.replace(old, new) for a one-character old and new
ReplaceChar(s, old, new) ==
    [i \in 1..Len(s) |-> IF s[i] = old THEN new ELSE s[i]]

\* str.replace(cc, c) for a doubled character cc: non-overlapping
\* occurrences, found left to right
RECURSIVE ReplaceDouble(_, _)
ReplaceDouble(s, c) ==
    IF Len(s) = 0 THEN << >>
    ELSE IF Len(s) >= 2 /\ s[1] = c /\ s[2] = c
         THEN <<c>> \o ReplaceDouble(SubSeq(s, 3, Len(s)), c)
         ELSE <<s[1]>> \o ReplaceDouble(Tail(s), c)

normalized(expression) ==
    ReplaceDouble(ReplaceDouble(ReplaceChar(expression, "!", "~"), "&"), "|")

\* End (exclusive) of the longest run of characters of class cls from i.
RECURSIVE RunEnd(_, _, _)
RunEnd(s, i, cls) ==
    IF i <= Len(s) /\ s[i] \in cls THEN RunEnd(s, i + 1, cls) ELSE i

\* The lookahead \w*\s*\( at position j.
LookaheadCall(s, j) ==
    LET k == RunEnd(s, RunEnd(s, j, WordChar), Space)
    IN  k <= Len(s) /\ s[k] = "("

\* _property_regex matched at position i: the end (exclusive) of the match,
\* or 0 when there is none.  \w* is greedy and gives characters back until
\* the negative lookahead holds.
PropertyMatchEnd(s, i) ==
    IF i > Len(s) \/ s[i] \notin Letter THEN 0
    ELSE LET top == RunEnd(s, i + 1, WordChar)
             ends == {j \in (i + 1)..top : ~LookaheadCall(s, j)}
         IN  IF ends = {} THEN 0
             ELSE CHOOSE j \in ends : \A k \in ends : k <= j

\* _property_regex.finditer: the matches from position i on, left to right.
RECURSIVE PropertyMatches(_, _)
PropertyMatches(s, i) ==
    IF i > Len(s) THEN {}
    ELSE LET e == PropertyMatchEnd(s, i)
         IN  IF e = 0 THEN PropertyMatches(s, i + 1)
             ELSE {SubSeq(s, i, e - 1)} \cup PropertyMatches(s, e)

properties(expression) == PropertyMatches(expression, 1)

\* A composition that does not put its operands in parentheses.
CombinedBare(expression_1, expression_2, operator) ==
    <<"(">> \o expression_1 \o <<" ">> \o operator \o <<" ">>
        \o expression_2 \o <<")">>

\* '(({0}) {1} ({2}))'.format(expression_1, operator, expression_2)
Combined(expression_1, expression_2, operator) ==
    <<"(", "(">> \o expression_1 \o <<")", " ">> \o operator
        \o <<" ", "(">> \o expression_2 \o <<")", ")">>

multiplied(expression_1, expression_2) ==
    Combined(expression_1, expression_2, <<"*">>)

----------------------------------------------------------------------------
(* Object identity: copy.copy and copy.deepcopy *)

\* Mutant of Copy: the receiver itself, no new object.
CopyAliased(heap, self) == [heap |-> heap, ref |-> self]

\* copy(self): a new object with the fields of heap[self].
Copy(heap, self) ==
    [heap |-> Append(heap, heap[self]), ref |-> Len(heap) + 1]

\* deepcopy(self): a new object whose fields are copies of those of
\* heap[self]; field values carry no identity in this model.
DeepCopy(heap, self) ==
    [heap |-> Append(heap, heap[self]), ref |-> Len(heap) + 1]

----------------------------------------------------------------------------
(* region.py *)

\* Reweighted.__init__
Reweighted(weight) == [type |-> "Reweighted", weight |-> normalized(weight)]

\* Reweighted.state (Variation.state returns () for every other type)
VariationState(v) ==
    IF v.type = "Reweighted" THEN <<v.weight>> ELSE << >>

\* getsource(self.__call__): the text of the class's __call__
VariationSource(v) == v.type

\* Variation.__hash__
VariationHash(v) == <<VariationState(v), VariationSource(v)>>

\* Reweighted.__call__
ApplyVariation(v, pair) == <<pair[1], multiplied(pair[2], v.weight)>>

\* Region.__init__
Region(selection, weight, label, metadata, weighted) ==
    [selection |-> selection, weight |-> weight, label |-> label,
     metadata |-> metadata, weighted |-> weighted, variations |-> << >>]

\* A hash that leaves the weighted flag out.
RegionHashNoWeighted(r) ==
    <<r.selection, r.weight,
      [i \in 1..Len(r.variations) |-> VariationHash(r.variations[i])]>>

\* Region.__hash__
RegionHash(r) ==
    <<r.selection, r.weight, r.weighted,
      [i \in 1..Len(r.variations) |-> VariationHash(r.variations[i])]>>

\* Region.varied
RegionVaried(heap, self, variation) ==
    LET c == Copy(heap, self)
    IN  [heap |-> [c.heap EXCEPT ![c.ref].variations = Append(@, variation)],
         ref |-> c.ref]

\* Region.weighted
RegionWeighted(heap, self, weighting_enabled) ==
    IF weighting_enabled = heap[self].weighted
    THEN [heap |-> heap, ref |-> self]
    ELSE LET c == Copy(heap, self)
         IN  [heap |-> [c.heap EXCEPT ![c.ref].weighted = weighting_enabled],
              ref |-> c.ref]

\* Mutant of VariationLoop: the variations applied last to first.
RECURSIVE VariationLoopReversed(_, _, _)
VariationLoopReversed(variations, i, pair) ==
    IF i > Len(variations) THEN pair
    ELSE ApplyVariation(variations[i],
                        VariationLoopReversed(variations, i + 1, pair))

\* The loop "for v in self._variations" from its i-th variation on.
RECURSIVE VariationLoop(_, _, _)
VariationLoop(variations, i, pair) ==
    IF i > Len(variations) THEN pair
    ELSE VariationLoop(variations, i + 1, ApplyVariation(variations[i], pair))

\* Region.selection_weight
selection_weight(r) ==
    LET p == VariationLoop(r.variations, 1, <<r.selection, r.weight>>)
    IN  IF ~r.weighted THEN <<p[1], EmptyStr>> ELSE p

----------------------------------------------------------------------------
(* Data: the contents of the ROOT files, and DataFrame.eval *)

DigitValue(c) ==
    CASE c = "0" -> 0 [] c = "1" -> 1 [] c = "2" -> 2 [] c = "3" -> 3
      [] c = "4" -> 4 [] c = "5" -> 5 [] c = "6" -> 6 [] c = "7" -> 7
      [] c = "8" -> 8 [] c = "9" -> 9

Columns == {Str_x, Str_w, Str_a, Str_b}

Row(x, w, a, b) ==
    (Str_x :> x) @@ (Str_w :> w) @@ (Str_a :> a) @@ (Str_b :> b)
        @@ (Str_tree_weight :> 1)

\* The events of a tree of a file.
FileRows(file, tree) ==
    CASE file = "f1" /\ tree = "nominal" -> <<Row(1, 2, 1, 2), Row(0 - 1, 3, 1, 1)>>
      [] file = "f2" /\ tree = "nominal" -> <<Row(2, 1, 2, 1)>>
      [] file = "f3" /\ tree = "nominal" -> <<Row(0 - 2, 2, 1, 3), Row(3, 1, 1, 1)>>
      [] file = "f1" /\ tree = "sys" -> <<Row(1, 3, 1, 2)>>
      [] file = "f2" /\ tree = "sys" -> <<Row(0 - 1, 1, 2, 1)>>
      [] file = "f3" /\ tree = "sys" -> <<Row(2, 2, 1, 1)>>

\* DataFrame.eval of a comparison "<column><op><digit>" on one row.
EvalSelection(expression, row) ==
    LET value == row[<<expression[1]>>]
        bound == DigitValue(expression[3])
    IN  IF expression[2] = ">" THEN value > bound ELSE value < bound

\* data[data.eval(selection)]
RECURSIVE SelectRows(_, _)
SelectRows(rows, selection) ==
    IF Len(rows) = 0 THEN << >>
    ELSE (IF EvalSelection(selection, rows[1]) THEN <<rows[1]>> ELSE << >>)
             \o SelectRows(Tail(rows), selection)

\* root2array over the files, in order, with the given branches and the
\* tree weight.
RECURSIVE ReadFiles(_, _, _)
ReadFiles(files, tree, branches) ==
    IF Len(files) = 0 THEN << >>
    ELSE LET rows == FileRows(files[1], tree)
         IN  [i \in 1..Len(rows) |->
                 [c \in branches \cup {Str_tree_weight} |-> rows[i][c]]]
             \o ReadFiles(Tail(files), tree, branches)

----------------------------------------------------------------------------
(* process.py *)

\* Filter.__init__
Filter(selection) == [type |-> "Filter", selection |-> normalized(selection)]

\* Patch.state: Filter does not override it.
PatchState(p) == << >>

\* getsource(self.__call__)
PatchSource(p) == p.type

\* Patch.__hash__
PatchHash(p) == <<PatchState(p), PatchSource(p)>>

\* Filter.properties
PatchProperties(p) == properties(p.selection)

\* Filter.__call__
ApplyPatch(p, data) == SelectRows(data, p.selection)

\* Process.__init__
Process(files, tree, label, line_color, fill_color, marker_style, metadata) ==
    [files |-> files, tree |-> tree, label |-> label,
     line_color |-> line_color, fill_color |-> fill_color,
     marker_style |-> marker_style, metadata |-> metadata, patches |-> << >>]

\* Mutant of ProcessHash: the label is hashed too.
ProcessHashWithLabel(p) ==
    <<p.files, p.tree, [i \in 1..Len(p.patches) |-> PatchHash(p.patches[i])],
      p.label>>

\* Process.__hash__
ProcessHash(p) ==
    <<p.files, p.tree, [i \in 1..Len(p.patches) |-> PatchHash(p.patches[i])]>>

\* The loop "for p in self._patches" from its i-th patch on.
RECURSIVE PatchLoop(_, _, _)
PatchLoop(patches, i, data) ==
    IF i > Len(patches) THEN data
    ELSE PatchLoop(patches, i + 1, ApplyPatch(patches[i], data))

\* Process.load
Load(p, props) ==
    LET all_properties ==
            (props \cup UNION {PatchProperties(p.patches[i]) :
                                   i \in 1..Len(p.patches)})
                \ {Str_tree_weight}
    IN  PatchLoop(p.patches, 1, ReadFiles(p.files, p.tree, all_properties))

\* Process.retreed
ProcessRetreed(heap, self, tree) ==
    LET c == DeepCopy(heap, self)
    IN  [heap |-> [c.heap EXCEPT ![c.ref].tree = tree], ref |-> c.ref]

\* Process.patched
ProcessPatched(heap, self, patch) ==
    LET c == DeepCopy(heap, self)
    IN  [heap |-> [c.heap EXCEPT ![c.ref].patches = Append(@, patch)],
         ref |-> c.ref]

----------------------------------------------------------------------------
(* More of DataFrame.eval: weights and histogrammed expressions *)

\* The identifiers _property_regex finds from position i on, in order and
\* with repetitions.
RECURSIVE PropertyTokens(_, _)
PropertyTokens(s, i) ==
    IF i > Len(s) THEN << >>
    ELSE LET e == PropertyMatchEnd(s, i)
         IN  IF e = 0 THEN PropertyTokens(s, i + 1)
             ELSE <<SubSeq(s, i, e - 1)>> \o PropertyTokens(s, e)

RECURSIVE ProductOf(_, _)
ProductOf(tokens, row) ==
    IF Len(tokens) = 0 THEN 1
    ELSE row[tokens[1]] * ProductOf(Tail(tokens), row)

\* DataFrame.eval of a weight: a product of columns, as multiplied() builds
\* it from column names.
EvalWeight(expression, row) == ProductOf(PropertyTokens(expression, 1), row)

Abs(n) == IF n < 0 THEN 0 - n ELSE n

\* DataFrame.eval of a histogrammed expression: a column, or abs(column).
EvalSample(expression, row) ==
    LET column == CHOOSE c \in properties(expression) : TRUE
    IN  IF Len(expression) > 4 /\ SubSeq(expression, 1, 4) = <<"a", "b", "s", "(">>
        THEN Abs(row[column])
        ELSE row[column]

RECURSIVE SumWeights(_, _)
SumWeights(rows, weight) ==
    IF Len(rows) = 0 THEN 0
    ELSE EvalWeight(weight, rows[1]) + SumWeights(Tail(rows), weight)

----------------------------------------------------------------------------
(* counting.py *)

\* The function _count wraps: its result carries its Python type, int for
\* len(data) and numpy.float64 for Series.sum().
CountBody(process, region) ==
    LET sw == selection_weight(region)
        selection == sw[1]
        weight == sw[2]
        required_properties == properties(selection) \cup properties(weight)
        loaded == Load(process, required_properties)
        data == IF selection # EmptyStr
                THEN SelectRows(loaded, normalized(selection))
                ELSE loaded
    IN  IF weight # EmptyStr
        THEN [ty |-> "float64", v |-> SumWeights(data, normalized(weight))]
        ELSE [ty |-> "int", v |-> Len(data)]

\* The mapper given to parallelized: lambda p, r: (p, r)
CountParallelMapper(process, region) ==
    <<ProcessHash(process), RegionHash(region)>>

\* A cache mapper that leaves the region out of the key.
CountCacheMapperNoRegion(process, region) == <<ProcessHash(process)>>

\* The mapper given to persistently_cached: lambda p, r: (p, r)
CountCacheMapper(process, region) ==
    <<ProcessHash(process), RegionHash(region)>>

\* The default the mocker of _count returns: lambda p, r: 1.0
CountMocker(process, region) == [ty |-> "float", v |-> 1]

----------------------------------------------------------------------------
(* histogramming.py *)

\* Binning.__init__ for a 'fixed' binning
FixedBinning(low, high, n_bins) ==
    [type |-> "fixed", low |-> low, high |-> high, n_bins |-> n_bins,
     edges |-> << >>]

\* Binning.__hash__
BinningHash(b) ==
    IF b.type = "fixed" THEN <<b.type, b.low, b.high, b.n_bins>>
    ELSE <<b.type, b.edges>>

\* Binning.edges: numpy.linspace(low, high, n_bins + 1), or the edges given
BinningEdges(b) ==
    IF b.type = "fixed"
    THEN [k \in 1..(b.n_bins + 1) |->
              b.low + ((k - 1) * (b.high - b.low)) \div b.n_bins]
    ELSE b.edges

\* The bin TH1 puts a value in: 0 is the underflow, n_bins + 1 the overflow.
FindBin(edges, x) == Cardinality({k \in 1..Len(edges) : edges[k] <= x})

\* TH1F(name, title, n_bins, edges): contents by bin, under- and overflow
\* included, held from index 1.
EmptyHistogram(edges) == [ty |-> "TH1F", bins |-> [k \in 1..(Len(edges) + 1) |-> 0]]

\* TH1::FillN(count, samples, weights); weights = nullptr fills with 1.
RECURSIVE FillN(_, _, _, _, _)
FillN(h, edges, rows, expression, weight) ==
    IF Len(rows) = 0 THEN h
    ELSE LET bin == FindBin(edges, EvalSample(normalized(expression), rows[1])) + 1
             w == IF weight # EmptyStr
                  THEN EvalWeight(normalized(weight), rows[1])
                  ELSE 1
         IN  FillN([h EXCEPT !.bins[bin] = @ + w], edges, Tail(rows),
                   expression, weight)

\* _parallel_mocker
ParallelMocker(process, region, expressions, binnings) ==
    EmptyHistogram(BinningEdges(binnings[1]))

\* Mutant of ParallelMapper: the region is part of the grouping key.
ParallelMapperWithRegion(process, region, expressions, binnings) ==
    <<ProcessHash(process), RegionHash(region)>>

\* _parallel_mapper
ParallelMapper(process, region, expressions, binnings) ==
    <<ProcessHash(process)>>

\* A _cache_mapper that keeps the load hints in the key.
CacheMapperWithHints(process, region, expressions, binnings, load_hints) ==
    <<ProcessHash(process), RegionHash(region), expressions,
      [i \in 1..Len(binnings) |-> BinningHash(binnings[i])], load_hints>>

\* _cache_mapper
CacheMapper(process, region, expressions, binnings, load_hints) ==
    <<ProcessHash(process), RegionHash(region), expressions,
      [i \in 1..Len(binnings) |-> BinningHash(binnings[i])]>>

\* The key mapper of _caching_loader
LoaderMapper(process, props) == <<ProcessHash(process), props>>

\* properties(e) for every e of the expressions, united
ExpressionProperties(expressions) ==
    UNION {properties(expressions[i]) : i \in 1..Len(expressions)}

\* load_hints = None
NoHints == [given |-> FALSE, props |-> {}]
Hints(props) == [given |-> TRUE, props |-> props]

\* A _histogram that loads with process.load whatever the hints, and leaves
\* the transient cache alone.
HistogramBodyUncached(process, region, expressions, binnings, load_hints, cache) ==
    LET sw == selection_weight(region)
        selection == sw[1]
        weight == sw[2]
        edges == BinningEdges(binnings[1])
        required_properties ==
            properties(selection) \cup properties(weight)
                \cup ExpressionProperties(expressions)
        loaded == IF load_hints.given
                  THEN Load(process, load_hints.props)
                  ELSE Load(process, required_properties)
        data == IF selection # EmptyStr
                THEN SelectRows(loaded, normalized(selection))
                ELSE loaded
    IN  [value |-> FillN(EmptyHistogram(edges), edges, data, expressions[1],
                         weight),
         cache |-> cache,
         loaded |-> TRUE]

\* The function _histogram wraps, for one expression.  cache is the transient
\* cache of _caching_loader; the result says what the call returns, the cache
\* after it and whether process.load ran.
HistogramBody(process, region, expressions, binnings, load_hints, cache) ==
    LET sw == selection_weight(region)
        selection == sw[1]
        weight == sw[2]
        edges == BinningEdges(binnings[1])
        key == LoaderMapper(process, load_hints.props)
        hit == load_hints.given /\ key \in DOMAIN cache
        required_properties ==
            properties(selection) \cup properties(weight)
                \cup ExpressionProperties(expressions)
        loaded == IF load_hints.given
                  THEN IF hit THEN cache[key]
                       ELSE Load(process, load_hints.props)
                  ELSE Load(process, required_properties)
        data == IF selection # EmptyStr
                THEN SelectRows(loaded, normalized(selection))
                ELSE loaded
    IN  [value |-> FillN(EmptyHistogram(edges), edges, data, expressions[1],
                         weight),
         cache |-> IF load_hints.given /\ ~hit
                   THEN (key :> loaded) @@ cache
                   ELSE cache,
         loaded |-> ~hit]

----------------------------------------------------------------------------
(* The object model as a state machine: construction and the copy-on-write *)
(* operations of Region and Process.                                       *)

\* The regions the configuration constructs.
RegionConfigs ==
    {Region(Str_x_gt_0, Str_w, "SR", "m0", TRUE),
     Region(Str_x_gt_0, Str_w, "CR", "m1", TRUE),
     Region(Str_x_lt_0, Str_w, "SR", "m0", FALSE)}

\* The processes the configuration constructs.
ProcessConfigs ==
    {Process(<<"f1", "f2">>, "nominal", "A", 1, 0, "None", "m0"),
     Process(<<"f1", "f2">>, "nominal", "B", 2, 3, "20", "m1"),
     Process(<<"f3">>, "nominal", "A", 1, 0, "None", "m0")}

VariationWeights == {Str_a, Str_b}
FilterSelections == {Str_x_gt_0, Str_x_lt_0}
Trees == {"nominal", "sys"}

Objects == Len(regions) + Len(processes)

CacheIdle ==
    /\ store = << >>
    /\ computations = << >>
    /\ ret = [call |-> "none", kind |-> "none", value |-> "none",
              computed |-> FALSE]
    /\ pending = << >>
    /\ bcalls = << >>
    /\ bidx = 0
    /\ bhints = {}
    /\ bpc = "idle"
    /\ invoked = << >>
    /\ loaderCache = << >>
    /\ loads = 0
    /\ berror = "none"
    /\ ncalls = 0

EstIdle ==
    /\ ecomps = << >>
    /\ eidx = 0
    /\ eresult = [ty |-> "none", v |-> 0]
    /\ epc = "idle"
    /\ ecalls = << >>
    /\ ewc = TRUE

\* No function of the library has been called.
FnIdle ==
    /\ fin = << >>
    /\ fop = "none"
    /\ fout = << >>

ObjectsEmpty ==
    /\ regions = << >>
    /\ processes = << >>
    /\ last = [op |-> "none", recv |-> 0, res |-> 0]

Init == ObjectsEmpty /\ CacheIdle /\ EstIdle /\ FnIdle

NewRegion ==
    \E cfg \in RegionConfigs :
        /\ Objects < MaxObjects
        /\ regions' = Append(regions, cfg)
        /\ last' = [op |-> "Region", recv |-> 0, res |-> Len(regions) + 1]
        /\ UNCHANGED <<processes, cacheVars, estVars, fnVars>>

Varied ==
    \E self \in DOMAIN regions, w \in VariationWeights :
        /\ Objects < MaxObjects
        /\ Len(regions[self].variations) < MaxChain
        /\ LET r == RegionVaried(regions, self, Reweighted(w))
           IN  /\ regions' = r.heap
               /\ last' = [op |-> "varied", recv |-> self, res |-> r.ref,
                           arg |-> Reweighted(w)]
        /\ UNCHANGED <<processes, cacheVars, estVars, fnVars>>

Weighted ==
    \E self \in DOMAIN regions, b \in BOOLEAN :
        /\ b = regions[self].weighted \/ Objects < MaxObjects
        /\ LET r == RegionWeighted(regions, self, b)
           IN  /\ regions' = r.heap
               /\ last' = [op |-> "weighted", recv |-> self, res |-> r.ref,
                           arg |-> b]
        /\ UNCHANGED <<processes, cacheVars, estVars, fnVars>>

NewProcess ==
    \E cfg \in ProcessConfigs :
        /\ Objects < MaxObjects
        /\ processes' = Append(processes, cfg)
        /\ last' = [op |-> "Process", recv |-> 0, res |-> Len(processes) + 1]
        /\ UNCHANGED <<regions, cacheVars, estVars, fnVars>>

Retreed ==
    \E self \in DOMAIN processes, tree \in Trees :
        /\ Objects < MaxObjects
        /\ LET r == ProcessRetreed(processes, self, tree)
           IN  /\ processes' = r.heap
               /\ last' = [op |-> "retreed", recv |-> self, res |-> r.ref,
                           arg |-> tree]
        /\ UNCHANGED <<regions, cacheVars, estVars, fnVars>>

Patched ==
    \E self \in DOMAIN processes, s \in FilterSelections :
        /\ Objects < MaxObjects
        /\ Len(processes[self].patches) < MaxChain
        /\ LET r == ProcessPatched(processes, self, Filter(s))
           IN  /\ processes' = r.heap
               /\ last' = [op |-> "patched", recv |-> self, res |-> r.ref,
                           arg |-> Filter(s)]
        /\ UNCHANGED <<regions, cacheVars, estVars, fnVars>>

Next ==
    \/ NewRegion
    \/ Varied
    \/ Weighted
    \/ NewProcess
    \/ Retreed
    \/ Patched

Spec == Init /\ [][Next]_vars

----------------------------------------------------------------------------
(* Claims about the object model *)

SameData(p, q) ==
    p.files = q.files /\ p.tree = q.tree /\ p.patches = q.patches

\* C2: two processes equal in files, tree and patches have the same hash
\* whatever their label, colours, marker style and metadata, and two regions
\* that differ only in label or metadata have the same hash.
HashIgnoresStyle ==
    /\ \A i, j \in DOMAIN processes :
          SameData(processes[i], processes[j])
              => ProcessHash(processes[i]) = ProcessHash(processes[j])
    /\ \A i, j \in DOMAIN regions :
          regions[i] = [regions[j] EXCEPT !.label = regions[i].label,
                                          !.metadata = regions[i].metadata]
              => RegionHash(regions[i]) = RegionHash(regions[j])

\* Two processes that differ in every style field and two regions that
\* differ in label and metadata are on the heap.
HashIgnoresStyleWitness ==
    /\ \E i, j \in DOMAIN processes :
          /\ SameData(processes[i], processes[j])
          /\ processes[i].label # processes[j].label
          /\ processes[i].line_color # processes[j].line_color
          /\ processes[i].fill_color # processes[j].fill_color
          /\ processes[i].marker_style # processes[j].marker_style
          /\ processes[i].metadata # processes[j].metadata
    /\ \E i, j \in DOMAIN regions :
          /\ regions[i].label # regions[j].label
          /\ regions[i].metadata # regions[j].metadata
          /\ regions[i] = [regions[j] EXCEPT !.label = regions[i].label,
                                             !.metadata = regions[i].metadata]

\* The property sets a calculation may ask a process to load.
LoadRequests == SUBSET {Str_x, Str_w}

\* C3: any two processes with equal fingerprint load identical data for every
\* property set, and any two regions with equal fingerprint have the same
\* selection and weight.
EqualFingerprintEqualData ==
    /\ \A i, j \in DOMAIN processes :
          ProcessHash(processes[i]) = ProcessHash(processes[j])
              => \A props \in LoadRequests :
                     Load(processes[i], props) = Load(processes[j], props)
    /\ \A i, j \in DOMAIN regions :
          RegionHash(regions[i]) = RegionHash(regions[j])
              => selection_weight(regions[i]) = selection_weight(regions[j])

\* v_n(...v_2(v_1(pair))...), written from the last variation inwards.
RECURSIVE Composed(_, _)
Composed(variations, pair) ==
    IF Len(variations) = 0 THEN pair
    ELSE ApplyVariation(variations[Len(variations)],
                        Composed(SubSeq(variations, 1, Len(variations) - 1),
                                 pair))

\* region.varied(v1).varied(v2)..., built on a heap of its own.
RECURSIVE VariedBy(_, _)
VariedBy(r, variations) ==
    IF Len(variations) = 0 THEN r
    ELSE LET h == RegionVaried(<<r>>, 1, variations[1])
         IN  VariedBy(h.heap[h.ref], Tail(variations))

Unvaried(r) == [r EXCEPT !.variations = << >>]

Reversed(s) == [i \in 1..Len(s) |-> s[Len(s) + 1 - i]]

\* C4 as stated: selection_weight() is the variations applied to the base
\* pair in the order they were added, and adding two non-commuting
\* variations in the two orders gives different results.
VariationsFoldInOrder ==
    \A i \in DOMAIN regions :
        LET r == regions[i]
            base == <<r.selection, r.weight>>
        IN  Len(r.variations) >= 2 =>
            /\ selection_weight(r) = Composed(r.variations, base)
            /\ Composed(r.variations, base)
                   # Composed(Reversed(r.variations), base)
                 => selection_weight(VariedBy(Unvaried(r), r.variations))
                        # selection_weight(VariedBy(Unvaried(r),
                                                    Reversed(r.variations)))

\* C4 as amended: the selection is that of the variations applied in the
\* order they were added, and so is the weight when weighting is enabled;
\* with weighting disabled the weight is the empty string, and the two
\* orders differ exactly when the resulting selections differ.
VariationsFoldInOrderWeighted ==
    \A i \in DOMAIN regions :
        LET r == regions[i]
            base == <<r.selection, r.weight>>
            fwd == Composed(r.variations, base)
            bwd == Composed(Reversed(r.variations), base)
            one == selection_weight(VariedBy(Unvaried(r), r.variations))
            other == selection_weight(VariedBy(Unvaried(r),
                                               Reversed(r.variations)))
        IN  /\ VariedBy(Unvaried(r), r.variations) = r
            /\ r.weighted => selection_weight(r) = fwd
            /\ ~r.weighted => selection_weight(r) = <<fwd[1], EmptyStr>>
            /\ (r.weighted /\ fwd # bwd) => one # other
            /\ ~r.weighted => ((one # other) <=> (fwd[1] # bwd[1]))

\* A weighted region with two different variations is on the heap, built by
\* two calls of varied().
VariationsFoldInOrderWitness ==
    \E i \in DOMAIN regions :
        /\ regions[i].weighted
        /\ Len(regions[i].variations) = 2
        /\ regions[i].variations[1] # regions[i].variations[2]
        /\ last.op = "varied"
        /\ last.res = i

\* C5: varied, weighted, patched and retreed leave every existing object as it
\* was (fields, hash, selection_weight()), and the returned object differs
\* from the receiver only in the field the operation targets.
CopyOnWrite ==
    [][/\ \A i \in DOMAIN regions :
             /\ i \in DOMAIN regions'
             /\ regions'[i] = regions[i]
             /\ RegionHash(regions'[i]) = RegionHash(regions[i])
             /\ selection_weight(regions'[i]) = selection_weight(regions[i])
       /\ \A i \in DOMAIN processes :
             /\ i \in DOMAIN processes'
             /\ processes'[i] = processes[i]
             /\ ProcessHash(processes'[i]) = ProcessHash(processes[i])
       /\ last'.op = "varied"
            => regions'[last'.res] =
                   [regions[last'.recv] EXCEPT
                        !.variations = Append(@, last'.arg)]
       /\ last'.op = "weighted"
            => regions'[last'.res] =
                   [regions[last'.recv] EXCEPT !.weighted = last'.arg]
       /\ last'.op = "retreed"
            => processes'[last'.res] =
                   [processes[last'.recv] EXCEPT !.tree = last'.arg]
       /\ last'.op = "patched"
            => processes'[last'.res] =
                   [processes[last'.recv] EXCEPT
                        !.patches = Append(@, last'.arg)]
      ]_vars

\* patched() has just returned a new process with one more patch than its
\* receiver, and a region and its varied() copy are on the heap.
CopyOnWriteWitness ==
    /\ last.op = "patched"
    /\ last.res # last.recv
    /\ processes[last.res].patches # processes[last.recv].patches
    /\ \E i, j \in DOMAIN regions :
          /\ regions[i].variations = << >>
          /\ regions[j].variations # << >>
          /\ Unvaried(regions[j]) = regions[i]

----------------------------------------------------------------------------
(* The cached, parallelized calculations and the histogram batcher *)

\* A call of _count or _histogram: its arguments.
Call(fn, process, region, expressions, binnings) ==
    [fn |-> fn, process |-> process, region |-> region,
     expressions |-> expressions, binnings |-> binnings]

ProcessA == Process(<<"f1", "f2">>, "nominal", "A", 1, 0, "None", "m0")
ProcessARestyled == Process(<<"f1", "f2">>, "nominal", "B", 2, 3, "20", "m1")
ProcessB == Process(<<"f3">>, "nominal", "A", 1, 0, "None", "m0")
RegionSR == Region(Str_x_gt_0, Str_w, "SR", "m0", TRUE)
RegionSRVaried ==
    LET h == RegionVaried(<<RegionSR>>, 1, Reweighted(Str_a)) IN h.heap[h.ref]
RegionUnweighted == Region(Str_x_lt_0, Str_w, "CR", "m0", FALSE)
BinningX == FixedBinning(0 - 4, 4, 2)

\* The calls the analysis makes.
Calls ==
    {Call("histogram", ProcessA, RegionSR, <<Str_x>>, <<BinningX>>),
     Call("histogram", ProcessARestyled, RegionSR, <<Str_x>>, <<BinningX>>),
     Call("histogram", ProcessA, RegionSRVaried, <<Str_b>>, <<BinningX>>),
     Call("histogram", ProcessB, RegionUnweighted, <<Str_abs_x>>, <<BinningX>>),
     Call("count", ProcessA, RegionSR, << >>, << >>),
     Call("count", ProcessA, RegionUnweighted, << >>, << >>)}

\* The key of a call in the persistent cache: the name given to
\* persistently_cached and what the call's mapper returns.
HintedKey(c, load_hints) ==
    IF c.fn = "count"
    THEN <<"owls_hep.counting.count", CountCacheMapper(c.process, c.region)>>
    ELSE <<"owls_hep.histogramming._histogram",
           CacheMapper(c.process, c.region, c.expressions, c.binnings,
                       load_hints)>>

\* The key of a call made without load hints.
PersistentKey(c) == HintedKey(c, NoHints)

\* The key by which parallelized groups a call: the function and what the
\* call's mapper returns.
GroupKey(c) ==
    IF c.fn = "count"
    THEN <<c.fn, CountParallelMapper(c.process, c.region)>>
    ELSE <<c.fn, ParallelMapper(c.process, c.region, c.expressions,
                                c.binnings)>>

\* What the mocker of a call returns.
Mock(c) ==
    IF c.fn = "count" THEN CountMocker(c.process, c.region)
    ELSE ParallelMocker(c.process, c.region, c.expressions, c.binnings)

\* The fingerprints of all arguments of a call: the identity of the
\* computation, whatever the mappers make of it.
Arguments(c) ==
    <<c.fn, ProcessHash(c.process), RegionHash(c.region), c.expressions,
      [i \in 1..Len(c.binnings) |-> BinningHash(c.binnings[i])]>>

\* The wrapped function run on a call.
Underlying(c, load_hints, cache) ==
    IF c.fn = "count"
    THEN [value |-> CountBody(c.process, c.region), cache |-> cache,
          loaded |-> TRUE]
    ELSE HistogramBody(c.process, c.region, c.expressions, c.binnings,
                       load_hints, cache)

\* persistently_cached: on a hit the stored value, on a miss the wrapped
\* function's value, stored under the key.
CachedCall(c, load_hints, st, cache) ==
    LET key == HintedKey(c, load_hints)
    IN  IF key \in DOMAIN st
        THEN [value |-> st[key], store |-> st, cache |-> cache,
              computed |-> FALSE, loaded |-> FALSE]
        ELSE LET r == Underlying(c, load_hints, cache)
             IN  [value |-> r.value, store |-> (key :> r.value) @@ st,
                  cache |-> r.cache, computed |-> TRUE, loaded |-> r.loaded]

\* The counter of completed runs of the wrapped function, after one more
\* for the arguments of c.
Counted(counts, c) ==
    LET a == Arguments(c)
    IN  IF a \in DOMAIN counts THEN [counts EXCEPT ![a] = @ + 1]
        ELSE (a :> 1) @@ counts

\* A first loop that leaves the properties of the expressions out.
RECURSIVE BatchPropertiesNoExpressions(_, _, _)
BatchPropertiesNoExpressions(args_kwargs, i, all_properties) ==
    IF i > Len(args_kwargs) THEN all_properties
    ELSE LET sw == selection_weight(args_kwargs[i].region)
         IN  BatchPropertiesNoExpressions(args_kwargs, i + 1,
                 all_properties \cup properties(sw[1])
                     \cup properties(sw[2]))

\* The first loop of _parallel_batcher from the i-th call on: all_properties.
RECURSIVE BatchProperties(_, _, _)
BatchProperties(args_kwargs, i, all_properties) ==
    IF i > Len(args_kwargs) THEN all_properties
    ELSE LET c == args_kwargs[i]
             sw == selection_weight(c.region)
         IN  BatchProperties(args_kwargs, i + 1,
                 all_properties \cup properties(sw[1]) \cup properties(sw[2])
                     \cup ExpressionProperties(c.expressions))

\* The calls of a sequence with the given grouping key, in order.
RECURSIVE Grouped(_, _, _)
Grouped(calls, g, same) ==
    IF Len(calls) = 0 THEN << >>
    ELSE (IF (GroupKey(calls[1]) = g) = same THEN <<calls[1]>> ELSE << >>)
             \o Grouped(Tail(calls), g, same)

InitCache == ObjectsEmpty /\ CacheIdle /\ EstIdle /\ FnIdle

\* A call outside parallel capture: the cached function runs at once.
DirectCall ==
    \E c \in Calls :
        /\ bpc = "idle"
        /\ ncalls < MaxCalls
        /\ ncalls' = ncalls + 1
        /\ \E r \in {CachedCall(c, NoHints, store, loaderCache)} :
               /\ store' = r.store
               /\ computations' = IF r.computed
                                  THEN Counted(computations, c)
                                  ELSE computations
               /\ ret' = [call |-> c, kind |-> "result", value |-> r.value,
                          computed |-> r.computed]
        /\ UNCHANGED <<pending, bcalls, bidx, bhints, bpc, invoked,
                       loaderCache, loads, berror, objVars, estVars, fnVars>>

\* A call under parallel capture: recorded, and the mocker's value returned.
Record ==
    \E c \in Calls :
        /\ bpc = "idle"
        /\ ncalls < MaxCalls
        /\ ncalls' = ncalls + 1
        /\ pending' = Append(pending, c)
        /\ ret' = [call |-> c, kind |-> "mock", value |-> Mock(c),
                   computed |-> FALSE]
        /\ UNCHANGED <<store, computations, bcalls, bidx, bhints, bpc,
                       invoked, loaderCache, loads, berror, objVars, estVars, fnVars>>

\* The backend runs the batch of one grouping key: _parallel_batcher starts
\* and computes all_properties (histograms); counts have no batcher and are
\* called one by one.
Dispatch ==
    \E g \in {GroupKey(pending[i]) : i \in DOMAIN pending} :
        /\ bpc = "idle"
        /\ bcalls' = Grouped(pending, g, TRUE)
        /\ pending' = Grouped(pending, g, FALSE)
        /\ bhints' = IF g[1] = "histogram"
                     THEN BatchProperties(bcalls', 1, {})
                     ELSE {}
        /\ bidx' = 0
        /\ bpc' = "running"
        /\ invoked' = << >>
        /\ loads' = 0
        /\ berror' = "none"
        /\ UNCHANGED <<store, computations, ret, loaderCache, ncalls,
                       objVars, estVars, fnVars>>

\* One turn of the second loop of _parallel_batcher: the callable is invoked
\* with the load hints.  It returns, or process.load raises, or
\* DataFrame.eval raises; what it raises leaves the batcher.
BatchStep ==
    \E outcome \in {"ok", "load", "eval"} :
        /\ bpc = "running"
        /\ bidx < Len(bcalls)
        /\ \E c \in {bcalls[bidx + 1]} :
           \E hints \in {IF c.fn = "histogram" THEN Hints(bhints)
                          ELSE NoHints} :
           \E r \in {CachedCall(c, hints, store, loaderCache)} :
               /\ invoked' = Append(invoked, [call |-> c, load_hints |-> hints])
               /\ outcome = "load" => r.computed /\ r.loaded
               /\ outcome = "eval" => r.computed
               /\ store' = IF outcome = "ok" THEN r.store ELSE store
               /\ computations' = IF outcome = "ok" /\ r.computed
                                  THEN Counted(computations, c)
                                  ELSE computations
               /\ loaderCache' = IF outcome = "load" THEN loaderCache
                                 ELSE r.cache
               /\ loads' = IF outcome # "load" /\ r.loaded THEN loads + 1
                           ELSE loads
               /\ ret' = IF outcome = "ok"
                         THEN [call |-> c, kind |-> "result",
                               value |-> r.value, computed |-> r.computed]
                         ELSE [call |-> c, kind |-> "raised",
                               value |-> outcome, computed |-> FALSE]
               /\ bidx' = IF outcome = "ok" THEN bidx + 1 ELSE bidx
               /\ bpc' = IF outcome = "ok" THEN "running" ELSE "raised"
               /\ berror' = IF outcome = "ok" THEN "none" ELSE outcome
        /\ UNCHANGED <<pending, bcalls, bhints, ncalls, objVars, estVars, fnVars>>

\* The end of _parallel_batcher: gc.collect() and
\* _caching_loader.caches.clear().
BatchFinish ==
    /\ bpc = "running"
    /\ bidx = Len(bcalls)
    /\ loaderCache' = IF bcalls[1].fn = "histogram" THEN << >>
                      ELSE loaderCache
    /\ bpc' = "done"
    /\ UNCHANGED <<store, computations, ret, pending, bcalls, bidx, bhints,
                   invoked, loads, berror, ncalls, objVars, estVars, fnVars>>

\* The batcher has returned or raised; the backend goes on.  invoked keeps
\* the invocations of the batch until the next batch starts.
BatchReturn ==
    /\ bpc \in {"done", "raised"}
    /\ bcalls' = << >>
    /\ bidx' = 0
    /\ bhints' = {}
    /\ bpc' = "idle"
    /\ loads' = 0
    /\ berror' = "none"
    /\ UNCHANGED <<store, computations, ret, pending, loaderCache, ncalls,
                   invoked, objVars, estVars, fnVars>>

NextCache ==
    \/ DirectCall
    \/ Record
    \/ Dispatch
    \/ BatchStep
    \/ BatchFinish
    \/ BatchReturn

SpecCache == InitCache /\ [][NextCache]_vars

----------------------------------------------------------------------------
(* Claims about the persistent cache and the batcher *)

\* The call has a value in the store.
StoredFor(c) == PersistentKey(c) \in DOMAIN store

\* C1: a cached calculation called twice in sequence with identical
\* arguments runs the wrapped computation exactly once.  No argument tuple is
\* ever computed more than once; a call that has returned, on a miss or on a
\* hit, has had its arguments computed exactly once, and what it returned is
\* the value stored under its key, which is the value of that computation.
ComputedOncePerKey ==
    /\ \A a \in DOMAIN computations : computations[a] = 1
    /\ ret.kind = "result" =>
          /\ StoredFor(ret.call)
          /\ ret.value = store[PersistentKey(ret.call)]
          /\ Arguments(ret.call) \in DOMAIN computations
          /\ ret.value = Underlying(ret.call, NoHints, << >>).value

\* A call has just returned the stored value of an earlier call with the
\* same arguments, without computing.
ComputedOncePerKeyWitness ==
    /\ ret.kind = "result"
    /\ ~ret.computed
    /\ Arguments(ret.call) \in DOMAIN computations
    /\ computations[Arguments(ret.call)] = 1
    /\ ncalls >= 2

\* The properties one call needs: those of its region's selection and
\* weight and of its expressions.
CallProperties(c) ==
    properties(selection_weight(c.region)[1])
        \cup properties(selection_weight(c.region)[2])
        \cup ExpressionProperties(c.expressions)

\* C6: the histogram batcher passes to every call the same load hint, the
\* union over all calls of the batch of the properties of the call's region
\* selection, region weight and expressions, and invokes the callable once
\* per call in list order: what has been invoked is always a prefix of the
\* batch, and all of the batch once the batcher has returned.
BatcherHintsUnion ==
    (bpc # "idle" /\ bcalls[1].fn = "histogram") =>
        /\ bhints = UNION {CallProperties(bcalls[i]) : i \in DOMAIN bcalls}
        /\ Len(invoked) <= Len(bcalls)
        /\ \A i \in DOMAIN invoked :
              /\ invoked[i].call = bcalls[i]
              /\ invoked[i].load_hints = Hints(bhints)
        /\ bpc = "running" => Len(invoked) = bidx
        /\ bpc = "done" => Len(invoked) = Len(bcalls)

\* The batcher has returned from a batch of two histogram calls with
\* different properties, both invoked with the same hint.
BatcherHintsUnionWitness ==
    /\ bpc = "done"
    /\ Len(bcalls) >= 2
    /\ bcalls[1].fn = "histogram"
    /\ Len(invoked) = Len(bcalls)
    /\ CallProperties(bcalls[1]) # CallProperties(bcalls[2])
    /\ invoked[1].load_hints = invoked[2].load_hints

\* The calls of the same calculation still waiting while a batch runs.
Waiting(fn) == {i \in DOMAIN pending : pending[i].fn = fn}

\* C7 as stated: the grouping key of Count and of Histogram depends only on
\* the process, so that no call is left waiting while a batch of the same
\* calculation with the same process runs.
GroupingByProcess ==
    bpc # "idle" =>
        \A i \in Waiting(bcalls[1].fn) :
            ProcessHash(pending[i].process) # ProcessHash(bcalls[1].process)

\* C7: the grouping key of Histogram depends only on the process, that of
\* Count on the process and the region.  All calls of a batch have the
\* process of its first call; no histogram call with that process is left
\* waiting; a count call with that process is left waiting exactly when its
\* region differs.
GroupingByMapper ==
    bpc # "idle" =>
        /\ \A i \in DOMAIN bcalls :
              /\ bcalls[i].fn = bcalls[1].fn
              /\ ProcessHash(bcalls[i].process) = ProcessHash(bcalls[1].process)
              /\ bcalls[1].fn = "count" =>
                    RegionHash(bcalls[i].region) = RegionHash(bcalls[1].region)
        /\ \A i \in Waiting(bcalls[1].fn) :
              \/ ProcessHash(pending[i].process)
                     # ProcessHash(bcalls[1].process)
              \/ /\ bcalls[1].fn = "count"
                 /\ RegionHash(pending[i].region)
                        # RegionHash(bcalls[1].region)

\* A batch of two histogram calls with one process and different regions
\* runs, and a batch of one count call runs while a count call with the same
\* process waits.
GroupingByMapperWitness ==
    /\ bpc = "running"
    /\ \/ /\ bcalls[1].fn = "histogram"
          /\ Len(bcalls) >= 2
          /\ RegionHash(bcalls[1].region) # RegionHash(bcalls[2].region)
       \/ /\ bcalls[1].fn = "count"
          /\ \E i \in Waiting("count") :
                ProcessHash(pending[i].process)
                    = ProcessHash(bcalls[1].process)

\* C8: when the callable fails for one call of a batch, for another reason
\* than a failed data load, the batcher still invokes the callable for every
\* remaining call and still clears the transient load cache at the end.
SiblingsUnaffected ==
    (bpc \in {"done", "raised"} /\ bcalls[1].fn = "histogram"
        /\ berror # "load") =>
        /\ Len(invoked) = Len(bcalls)
        /\ loaderCache = << >>

\* C26: while the histogram batcher runs the calls of one batch, which share
\* a process, process.load runs at most once, however many of the calls miss
\* the persistent cache; when the batcher has returned normally the
\* transient cache of _caching_loader is empty.
LoadedOncePerBatch ==
    (bpc # "idle" /\ bcalls[1].fn = "histogram") =>
        /\ loads <= 1
        /\ bpc = "done" => loaderCache = << >>

\* The batcher has returned from a batch of two histogram calls with
\* different arguments, the only calls made, so that both missed the
\* persistent cache; the data was loaded once.
LoadedOncePerBatchWitness ==
    /\ bpc = "done"
    /\ bcalls[1].fn = "histogram"
    /\ Len(bcalls) = 2
    /\ ncalls = 2
    /\ Arguments(bcalls[1]) # Arguments(bcalls[2])
    /\ \A i \in DOMAIN bcalls : Arguments(bcalls[i]) \in DOMAIN computations
    /\ loads = 1
    /\ loaderCache = << >>

\* The key of the histogram call c, whatever the load hints.
HistogramKey(c) ==
    <<"owls_hep.histogramming._histogram",
      <<ProcessHash(c.process), RegionHash(c.region), c.expressions,
        [i \in 1..Len(c.binnings) |-> BinningHash(c.binnings[i])]>>>>

\* A histogram call outside a batch returns for arguments that have a value
\* in the store.
UnbatchedHit ==
    /\ bpc = "idle"
    /\ ncalls' = ncalls + 1
    /\ ret'.kind = "result"
    /\ ret'.call.fn = "histogram"
    /\ HistogramKey(ret'.call) \in DOMAIN store

\* Every invocation of the batcher used the key of its call without the
\* hints.
KeysWithoutHints ==
    \A i \in DOMAIN invoked :
        invoked[i].call.fn = "histogram" =>
            HintedKey(invoked[i].call, invoked[i].load_hints)
                = HistogramKey(invoked[i].call)

\* C27: the key of a histogram call in the persistent cache is (process,
\* region, expressions, binnings) whatever its load_hints; a histogram call
\* outside a batch whose (process, region, expressions, binnings) have a
\* stored value, a value stored by a batch included, returns the stored
\* value and computes and stores nothing.
KeyWithoutHints ==
    /\ []KeysWithoutHints
    /\ [][UnbatchedHit =>
            /\ ~ret'.computed
            /\ ret'.value = store[HistogramKey(ret'.call)]
            /\ computations' = computations
            /\ store' = store]_vars

\* The only computation of a histogram was made by a batch, with load
\* hints; a call outside a batch with the same arguments has then returned
\* the stored value without computing.
KeyWithoutHintsWitness ==
    /\ bpc = "idle"
    /\ ncalls = 2
    /\ ret.kind = "result"
    /\ ret.call.fn = "histogram"
    /\ ~ret.computed
    /\ Len(invoked) = 1
    /\ invoked[1].call = ret.call
    /\ invoked[1].load_hints.given
    /\ invoked[1].load_hints.props # {}
    /\ computations[Arguments(ret.call)] = 1
    /\ ret.value = store[HistogramKey(ret.call)]

----------------------------------------------------------------------------
(* algebra.py and estimation.py *)

\* A Python scalar: its type and its value.
Scalar(ty, v) == [ty |-> ty, v |-> v]

\* None
None == Scalar("NoneType", 0)

\* An uncertainty tuple (overall_up, overall_down, shape_up, shape_down).
Tuple(items) == [ty |-> "tuple", items |-> items]

\* A reference to a ROOT histogram: its class and the identity of the object.
\* The bin contents of object id are heap[id].
TH1Classes == {"TH1F", "TH1D"}
TH1(class, id) == [ty |-> class, v |-> id]

\* The type of the product or sum of two Python scalars: a numpy.float64
\* operand gives numpy.float64, else a float operand gives float.
Promote(t1, t2) ==
    IF "float64" \in {t1, t2} THEN "float64"
    ELSE IF "float" \in {t1, t2} THEN "float"
    ELSE "int"

Exceptions == {"ValueError", "IndexError", "TypeError", "ZeroDivisionError"}
Raised(exception) == Scalar(exception, 0)
IsRaised(x) == x.ty \in Exceptions

\* a * b and a + b of Python: None has no arithmetic, an operand that has
\* raised ends the evaluation.
Times(a, b) ==
    IF "NoneType" \in {a.ty, b.ty} THEN Raised("TypeError")
    ELSE Scalar(Promote(a.ty, b.ty), a.v * b.v)
Plus(a, b) ==
    IF IsRaised(a) THEN a
    ELSE IF IsRaised(b) THEN b
    ELSE Scalar(Promote(a.ty, b.ty), a.v + b.v)

\* What a function of algebra.py leaves behind: the ROOT objects and the value
\* it returns (or the exception it raises).
Result(heap, value) == [heap |-> heap, result |-> value]

\* value.Clone(uuid4().hex): a new object with the contents of value
Clone(heap, value) ==
    Result(Append(heap, heap[value.v]), TH1(value.ty, Len(heap) + 1))

\* this.Add(h1, h2, c1, c2): the contents of this become c1*h1 + c2*h2
TH1Add(heap, this, h1, h2, c1, c2) ==
    [heap EXCEPT ![this.v] =
        [i \in 1..Len(heap[this.v]) |->
            c1.v * heap[h1.v][i] + c2.v * heap[h2.v][i]]]

\* A Scale that leaves the contents as they are.
TH1ScaleNothing(heap, this, c1) == heap

\* this.Scale(c1)
TH1Scale(heap, this, c1) ==
    [heap EXCEPT ![this.v] =
        [i \in 1..Len(heap[this.v]) |-> c1.v * heap[this.v][i]]]

\* A comparison of types that tells scalars, histograms and tuples apart and
\* nothing more.
TypesDifferByShape(value_1, value_2) ==
    \/ (value_1.ty = "tuple") # (value_2.ty = "tuple")
    \/ (value_1.ty \in TH1Classes) # (value_2.ty \in TH1Classes)

\* type(value_1) != type(value_2)
TypesDiffer(value_1, value_2) == value_1.ty # value_2.ty

\* A test for None that looks at the first operand only.
NoneInFirst(a, b) == a.ty = "NoneType"

\* None in (a, b)
NoneIn(a, b) == a.ty = "NoneType" \/ b.ty = "NoneType"

RECURSIVE add(_, _, _, _, _)
RECURSIVE AddComponents(_, _, _, _, _, _, _)

\* The four components of the sum of two tuples, from the k-th on: None
\* where either operand has None, else the sum of the components.
AddComponents(heap, coefficient_1, value_1, coefficient_2, value_2, k, done) ==
    IF k > 4 THEN Result(heap, Tuple(done))
    ELSE IF NoneIn(value_1.items[k], value_2.items[k])
    THEN AddComponents(heap, coefficient_1, value_1, coefficient_2, value_2,
                       k + 1, Append(done, None))
    ELSE LET r == add(heap, coefficient_1, value_1.items[k],
                      coefficient_2, value_2.items[k])
         IN IF IsRaised(r.result) THEN r
            ELSE AddComponents(r.heap, coefficient_1, value_1,
                               coefficient_2, value_2,
                               k + 1, Append(done, r.result))

\* add
add(heap, coefficient_1, value_1, coefficient_2, value_2) ==
    IF TypesDiffer(value_1, value_2) THEN Result(heap, Raised("ValueError"))
    ELSE IF value_1.ty = "tuple"
    THEN AddComponents(heap, coefficient_1, value_1, coefficient_2, value_2,
                       1, << >>)
    ELSE IF value_1.ty \in TH1Classes
    THEN LET r == Clone(heap, value_1)
         IN Result(TH1Add(r.heap, r.result, value_1, value_2,
                          coefficient_1, coefficient_2),
                   r.result)
    ELSE Result(heap, Plus(Times(coefficient_1, value_1),
                           Times(coefficient_2, value_2)))

RECURSIVE multiply(_, _, _)
RECURSIVE MultiplyComponents(_, _, _, _, _)

\* The four components of the product, from the k-th on: None stays None.
MultiplyComponents(heap, coefficient, value, k, done) ==
    IF k > 4 THEN Result(heap, Tuple(done))
    ELSE IF value.items[k].ty = "NoneType"
    THEN MultiplyComponents(heap, coefficient, value, k + 1,
                            Append(done, None))
    ELSE LET r == multiply(heap, coefficient, value.items[k])
         IN IF IsRaised(r.result) THEN r
            ELSE MultiplyComponents(r.heap, coefficient, value, k + 1,
                                    Append(done, r.result))

\* multiply
multiply(heap, coefficient, value) ==
    IF value.ty = "tuple"
    THEN MultiplyComponents(heap, coefficient, value, 1, << >>)
    ELSE IF value.ty \in TH1Classes
    THEN LET r == Clone(heap, value)
         IN Result(TH1Scale(r.heap, r.result, coefficient), r.result)
    ELSE Result(heap, Times(coefficient, value))

\* A component: (coefficient, use_nominal, process, region)
Component(coefficient, use_nominal, process, region) ==
    [coefficient |-> coefficient, use_nominal |-> use_nominal,
     process |-> process, region |-> region]

\* The components the estimation schemes hand out: A with coefficient 1.0, B
\* with coefficient -1.0, either with coefficient 2, over a weighted or an
\* unweighted region.
Components ==
    {Component(k[1], FALSE, k[2], r) :
        k \in {<<Scalar("float", 1), ProcessA>>,
               <<Scalar("float", 0 - 1), ProcessB>>,
               <<Scalar("int", 2), ProcessA>>,
               <<Scalar("int", 2), ProcessB>>},
        r \in {RegionSR, RegionUnweighted}}

ComponentLists == UNION {[1..n -> Components] : n \in 0..MaxComponents}

\* A check of the component list that lets every list through.
NoComponentsUnchecked(components) == FALSE

\* len(components) == 0
NoComponents(components) == Len(components) = 0

\* The switch of all coefficients to 1.0 when weighted_combination is off.
Unweighted(components) ==
    [i \in 1..Len(components) |->
        [components[i] EXCEPT !.coefficient = Scalar("float", 1)]]

\* The call of the underlying calculation, a Count, for a component.
CountCall(component) ==
    Call("count", component.process, component.region, << >>, << >>)

InitEstimation == ObjectsEmpty /\ CacheIdle /\ EstIdle /\ FnIdle

\* The estimation has raised before it called the underlying calculation.
EstimationRaises(components, weighted_combination, exception) ==
    /\ ecomps' = components
    /\ ewc' = weighted_combination
    /\ eidx' = 0
    /\ eresult' = Raised(exception)
    /\ epc' = "error"
    /\ ecalls' = << >>
    /\ UNCHANGED <<store, computations>>

\* Estimation.__call__ up to the first value: the components, the check for
\* none, the switch of the coefficients, and the first component.
EstimationCall ==
    \E components \in ComponentLists, weighted_combination \in BOOLEAN :
        /\ epc = "idle"
        /\ IF NoComponents(components)
           THEN EstimationRaises(components, weighted_combination,
                                 "ValueError")
           ELSE IF Len(components) < 1
           THEN EstimationRaises(components, weighted_combination,
                                 "IndexError")
           ELSE \E used \in {IF weighted_combination THEN components
                             ELSE Unweighted(components)} :
                \E r \in {CachedCall(CountCall(used[1]), NoHints, store,
                                     loaderCache)} :
                    /\ ecomps' = used
                    /\ ewc' = weighted_combination
                    /\ eidx' = 1
                    /\ eresult' = multiply(<< >>, used[1].coefficient,
                                           r.value).result
                    /\ epc' = "running"
                    /\ ecalls' = <<CountCall(used[1])>>
                    /\ store' = r.store
                    /\ computations' =
                          IF r.computed
                          THEN Counted(computations, CountCall(used[1]))
                          ELSE computations
        /\ UNCHANGED <<ret, pending, bcalls, bidx, bhints, bpc, invoked,
                       loaderCache, loads, berror, ncalls, objVars,
                       fnVars>>

\* One turn of the loop over components[1:]: the calculation is called and
\* its value added to the result; add may raise.
EstimationStep ==
    /\ epc = "running"
    /\ eidx < Len(ecomps)
    /\ \E c \in {ecomps[eidx + 1]} :
       \E r \in {CachedCall(CountCall(c), NoHints, store, loaderCache)} :
       \E sum \in {add(<< >>, Scalar("float", 1), eresult,
                       c.coefficient, r.value).result} :
           /\ ecalls' = Append(ecalls, CountCall(c))
           /\ store' = r.store
           /\ computations' = IF r.computed
                              THEN Counted(computations, CountCall(c))
                              ELSE computations
           /\ eresult' = sum
           /\ eidx' = eidx + 1
           /\ epc' = IF IsRaised(sum) THEN "error" ELSE "running"
    /\ UNCHANGED <<ecomps, ewc, ret, pending, bcalls, bidx, bhints, bpc,
                   invoked, loaderCache, loads, berror, ncalls, objVars,
                   fnVars>>

\* return result
EstimationReturn ==
    /\ epc = "running"
    /\ eidx = Len(ecomps)
    /\ epc' = "returned"
    /\ UNCHANGED <<ecomps, ewc, eidx, eresult, ecalls, cacheVars, objVars,
                   fnVars>>

NextEstimation ==
    \/ EstimationCall
    \/ EstimationStep
    \/ EstimationReturn

SpecEstimation == InitEstimation /\ [][NextEstimation]_vars

----------------------------------------------------------------------------
(* Claims about estimation *)

\* The sum over the components from the i-th on of coefficient times count.
RECURSIVE ComponentSum(_, _)
ComponentSum(components, i) ==
    IF i > Len(components) THEN 0
    ELSE components[i].coefficient.v
             * CountBody(components[i].process, components[i].region).v
         + ComponentSum(components, i + 1)

\* C9: for every non-empty component list and a Count as the underlying
\* calculation, Estimation.__call__ with weighted_combination=True raises no
\* error and returns the sum over the components of coefficient times count,
\* over weighted and over unweighted regions, with int or float coefficients.
EstimationSums ==
    (ewc /\ Len(ecomps) > 0) =>
        /\ epc # "error"
        /\ epc = "returned" => eresult.v = ComponentSum(ecomps, 1)

\* C10: Estimation.__call__ fails with the ValueError of its check whenever
\* the component list is empty, and the underlying calculation is never
\* invoked in that case.
EmptyComponentsFail ==
    (epc # "idle" /\ ecomps = << >>) =>
        /\ epc = "error"
        /\ eresult = Raised("ValueError")
        /\ ecalls = << >>
        /\ store = << >>
        /\ computations = << >>

\* Estimation.__call__ has been called with no components and has failed.
EmptyComponentsFailWitness ==
    /\ epc = "error"
    /\ ecomps = << >>
    /\ IsRaised(eresult)
    /\ ecalls = << >>

----------------------------------------------------------------------------
(* expression.py as functions: normalized, properties, negation and        *)
(* composition called on expression strings                                *)

\* Longest expression string handed to a function.
MaxExpression == 4

\* The characters of the expression strings: two letters, a digit, the
\* opening parenthesis, the space and the three operator characters.
ExpressionChars == {"x", "e", "1", "(", " ", "!", "&", "|"}

Expressions == UNION {[1..n -> ExpressionChars] : n \in 0..MaxExpression}

\* The names asked to be negated, the second operands of a composition.
VariableNames == {<<"x">>, <<"e", "1">>}
SecondOperands == {<<"e", "1">>, <<"!", "x">>}

\* '!({0})'.format(expression)
negated(expression) == <<"!", "(">> \o expression \o <<")">>

\* negator, the replacement function given to _property_regex.sub
negator(match_group, variable) ==
    IF match_group = variable THEN negated(match_group) ELSE match_group

\* _property_regex.sub(negator, expression) from position i on: every match
\* replaced by what negator returns, every other character kept.
RECURSIVE PropertySub(_, _, _)
PropertySub(s, i, variable) ==
    IF i > Len(s) THEN << >>
    ELSE LET e == PropertyMatchEnd(s, i)
         IN  IF e = 0 THEN <<s[i]>> \o PropertySub(s, i + 1, variable)
             ELSE negator(SubSeq(s, i, e - 1), variable)
                      \o PropertySub(s, e, variable)

variable_negated(expression, variable) == PropertySub(expression, 1, variable)

added(expression_1, expression_2) ==
    Combined(expression_1, expression_2, <<"+">>)
subtracted(expression_1, expression_2) ==
    Combined(expression_1, expression_2, <<"-">>)
divided(expression_1, expression_2) ==
    Combined(expression_1, expression_2, <<"/">>)
floor_divided(expression_1, expression_2) ==
    Combined(expression_1, expression_2, <<"/", "/">>)
anded(expression_1, expression_2) ==
    Combined(expression_1, expression_2, <<"&", "&">>)
ored(expression_1, expression_2) ==
    Combined(expression_1, expression_2, <<"|", "|">>)
xored(expression_1, expression_2) ==
    Combined(expression_1, expression_2, <<"^">>)

CompositionNames ==
    {"added", "subtracted", "multiplied", "divided", "floor_divided",
     "anded", "ored", "xored"}

\* The composition function of the given name, called.
Composition(name, expression_1, expression_2) ==
    CASE name = "added" -> added(expression_1, expression_2)
      [] name = "subtracted" -> subtracted(expression_1, expression_2)
      [] name = "multiplied" -> multiplied(expression_1, expression_2)
      [] name = "divided" -> divided(expression_1, expression_2)
      [] name = "floor_divided" -> floor_divided(expression_1, expression_2)
      [] name = "anded" -> anded(expression_1, expression_2)
      [] name = "ored" -> ored(expression_1, expression_2)
      [] name = "xored" -> xored(expression_1, expression_2)

InitExpression ==
    /\ ObjectsEmpty /\ CacheIdle /\ EstIdle
    /\ fin \in Expressions
    /\ fop = "none"
    /\ fout = << >>

NormalizedCalled ==
    /\ fop = "none"
    /\ fop' = "normalized"
    /\ fout' = normalized(fin)
    /\ UNCHANGED <<fin, objVars, cacheVars, estVars>>

PropertiesCalled ==
    /\ fop = "none"
    /\ fop' = "properties"
    /\ fout' = properties(fin)
    /\ UNCHANGED <<fin, objVars, cacheVars, estVars>>

NegatedCalled ==
    /\ fop = "none"
    /\ fop' = "negated"
    /\ fout' = negated(fin)
    /\ UNCHANGED <<fin, objVars, cacheVars, estVars>>

VariableNegatedCalled ==
    \E variable \in VariableNames :
        /\ fop = "none"
        /\ fop' = "variable_negated"
        /\ fout' = [variable |-> variable,
                    value |-> variable_negated(fin, variable)]
        /\ UNCHANGED <<fin, objVars, cacheVars, estVars>>

CompositionCalled ==
    \E name \in CompositionNames, expression_2 \in SecondOperands :
        /\ fop = "none"
        /\ fop' = name
        /\ fout' = [expression_2 |-> expression_2,
                    value |-> Composition(name, fin, expression_2)]
        /\ UNCHANGED <<fin, objVars, cacheVars, estVars>>

NextExpression ==
    \/ NormalizedCalled
    \/ PropertiesCalled
    \/ NegatedCalled
    \/ VariableNegatedCalled
    \/ CompositionCalled

SpecExpression == InitExpression /\ [][NextExpression]_vars

----------------------------------------------------------------------------
(* Claims about expression.py *)

\* C15: normalized is idempotent: what normalized returns, for every
\* expression over '!', '&', '|' and identifiers, is left unchanged by
\* normalized.
NormalizedIdempotent ==
    fop = "normalized" => normalized(fout) = fout

\* Position i starts an identifier: a letter not preceded by a word
\* character.
IdentifierStart(s, i) ==
    /\ s[i] \in Letter
    /\ i > 1 => s[i - 1] \notin WordChar

\* The identifier that starts at i is followed by '(', after any whitespace.
IsCalled(s, i) ==
    LET k == RunEnd(s, RunEnd(s, i, WordChar), Space)
    IN  k <= Len(s) /\ s[k] = "("

\* The identifier that starts at i.
IdentifierAt(s, i) == SubSeq(s, i, RunEnd(s, i, WordChar) - 1)

\* The identifier tokens of an expression that are not called.
IdentifierTokens(s) ==
    {IdentifierAt(s, i) :
        i \in {j \in 1..Len(s) : IdentifierStart(s, j) /\ ~IsCalled(s, j)}}

\* C16: properties(expr) is exactly the set of the identifier tokens of the
\* expression that are not followed by '(': no function name, no part of a
\* function name and no part of a numeric literal is in it.
PropertiesAreIdentifierTokens ==
    fop = "properties" => fout = IdentifierTokens(fin)

\* The expression from position i on with every identifier token equal to
\* name, and not called, replaced by '!(name)'.
RECURSIVE TokensNegated(_, _, _)
TokensNegated(s, i, name) ==
    IF i > Len(s) THEN << >>
    ELSE IF IdentifierStart(s, i)
         THEN (IF IdentifierAt(s, i) = name /\ ~IsCalled(s, i)
               THEN <<"!", "(">> \o name \o <<")">>
               ELSE IdentifierAt(s, i))
                  \o TokensNegated(s, RunEnd(s, i, WordChar), name)
         ELSE <<s[i]>> \o TokensNegated(s, i + 1, name)

\* C17: variable_negated(expr, name) replaces every identifier token equal to
\* name by '!(name)' and leaves every other character unchanged, identifiers
\* that have name as a prefix or suffix included.
VariableNegatedExactTokens ==
    fop = "variable_negated" =>
        fout.value = TokensNegated(fin, 1, fout.variable)

\* The operator of each composition function.
OperatorOf(name) ==
    CASE name = "added" -> <<"+">>
      [] name = "subtracted" -> <<"-">>
      [] name = "multiplied" -> <<"*">>
      [] name = "divided" -> <<"/">>
      [] name = "floor_divided" -> <<"/", "/">>
      [] name = "anded" -> <<"&", "&">>
      [] name = "ored" -> <<"|", "|">>
      [] name = "xored" -> <<"^">>

\* C18: each composition function returns '((e1) op (e2))' with its operator
\* and negated returns '!(e)': the operands stand unmodified in their
\* parentheses.
CompositionFormat ==
    /\ fop \in CompositionNames =>
          LET r == fout.value
              op == OperatorOf(fop)
              n1 == Len(fin)
              n2 == Len(fout.expression_2)
              k == Len(op)
          IN  /\ Len(r) = n1 + n2 + k + 8
              /\ SubSeq(r, 1, 2) = <<"(", "(">>
              /\ SubSeq(r, 3, 2 + n1) = fin
              /\ SubSeq(r, 3 + n1, 4 + n1) = <<")", " ">>
              /\ SubSeq(r, 5 + n1, 4 + n1 + k) = op
              /\ SubSeq(r, 5 + n1 + k, 6 + n1 + k) = <<" ", "(">>
              /\ SubSeq(r, 7 + n1 + k, 6 + n1 + k + n2) = fout.expression_2
              /\ SubSeq(r, 7 + n1 + k + n2, Len(r)) = <<")", ")">>
    /\ fop = "negated" =>
          /\ Len(fout) = Len(fin) + 3
          /\ SubSeq(fout, 1, 2) = <<"!", "(">>
          /\ SubSeq(fout, 3, Len(fin) + 2) = fin
          /\ fout[Len(fout)] = ")"

\* floor_divided has been called on an expression that itself holds
\* parentheses and operator characters.
CompositionFormatWitness ==
    /\ fop = "floor_divided"
    /\ Len(fin) = MaxExpression
    /\ \E i \in 1..Len(fin) : fin[i] = "("
    /\ \E i \in 1..Len(fin) : fin[i] = "&"
    /\ Len(fout.value) = Len(fin) + Len(fout.expression_2) + 10

----------------------------------------------------------------------------
(* algebra.py as functions: add and multiply called on scalars, histograms *)
(* and uncertainty tuples                                                  *)

\* Number of bins of a histogram.
MaxBins == 2

\* The ROOT histograms that exist before the call: three histograms with
\* positive, zero and negative bin contents.
Histograms ==
    <<[i \in 1..MaxBins |-> i],
      [i \in 1..MaxBins |-> 2 - i],
      [i \in 1..MaxBins |-> 3 * i]>>

ScalarValues == {Scalar("int", 2), Scalar("float", 3), Scalar("float64", 5)}
HistogramValues == {TH1("TH1F", 1), TH1("TH1F", 2), TH1("TH1D", 3)}

\* The overall and the shape components of an uncertainty tuple.
OverallValues == {None, Scalar("float", 1), Scalar("int", 1)}
ShapeValues == {None, TH1("TH1F", 1), TH1("TH1D", 3)}

UncertaintyValues ==
    {Tuple(<<overall_up, overall_down, shape_up, shape_down>>) :
        overall_up \in OverallValues, overall_down \in OverallValues,
        shape_up \in ShapeValues, shape_down \in ShapeValues}

Values == ScalarValues \cup {None} \cup HistogramValues \cup UncertaintyValues

Coefficients == {Scalar("int", 1), Scalar("int", 2), Scalar("float", 0 - 1)}

AlgebraArguments ==
    [heap : {Histograms},
     coefficient_1 : Coefficients, value_1 : Values,
     coefficient_2 : Coefficients, value_2 : Values]

InitAlgebra ==
    /\ ObjectsEmpty /\ CacheIdle /\ EstIdle
    /\ fin \in AlgebraArguments
    /\ fop = "none"
    /\ fout = << >>

\* add(coefficient_1, value_1, coefficient_2, value_2)
AddCalled ==
    /\ fop = "none"
    /\ \E r \in {add(fin.heap, fin.coefficient_1, fin.value_1,
                     fin.coefficient_2, fin.value_2)} :
        /\ fop' = "add"
        /\ fout' = r
    /\ UNCHANGED <<fin, objVars, cacheVars, estVars>>

\* multiply(coefficient_1, value_1)
MultiplyCalled ==
    /\ fop = "none"
    /\ \E r \in {multiply(fin.heap, fin.coefficient_1, fin.value_1)} :
        /\ fop' = "multiply"
        /\ fout' = r
    /\ UNCHANGED <<fin, objVars, cacheVars, estVars>>

NextAlgebra ==
    \/ AddCalled
    \/ MultiplyCalled

SpecAlgebra == InitAlgebra /\ [][NextAlgebra]_vars

----------------------------------------------------------------------------
(* Claims about algebra.py *)

\* The types of two values differ, at the top or in a pair of components
\* that add recurses into (a pair without None).
RECURSIVE Mismatched(_, _)
Mismatched(value_1, value_2) ==
    \/ value_1.ty # value_2.ty
    \/ /\ value_1.ty = "tuple"
       /\ \E k \in 1..4 :
            /\ value_1.items[k].ty # "NoneType"
            /\ value_2.items[k].ty # "NoneType"
            /\ Mismatched(value_1.items[k], value_2.items[k])

\* C12: add fails with the error for mismatched types whenever the types of
\* its two values differ, at the top and in every pair of tuple components it
\* recurses into, and every histogram that existed before the call has the
\* contents it had.
AddTypeError ==
    fop = "add" =>
        /\ Mismatched(fin.value_1, fin.value_2) =>
               fout.result.ty = "ValueError"
        /\ Len(fout.heap) >= Len(fin.heap)
        /\ \A id \in 1..Len(fin.heap) : fout.heap[id] = fin.heap[id]

\* add has summed the shape-up histograms of two tuples into a new histogram
\* and has then failed on shape-down histograms of different classes.
AddTypeErrorWitness ==
    /\ fop = "add"
    /\ fin.value_1.ty = "tuple"
    /\ fin.value_2.ty = "tuple"
    /\ fin.value_1.items[4].ty = "TH1F"
    /\ fin.value_2.items[4].ty = "TH1D"
    /\ Len(fout.heap) > Len(fin.heap)
    /\ fout.result.ty = "ValueError"

\* Two values are the same: the same type and the same number, the same bin
\* contents, or the same components.
RECURSIVE SameValue(_, _, _, _)
SameValue(heap_1, value_1, heap_2, value_2) ==
    /\ value_1.ty = value_2.ty
    /\ IF value_1.ty = "tuple"
       THEN \A k \in 1..4 :
                SameValue(heap_1, value_1.items[k], heap_2, value_2.items[k])
       ELSE IF value_1.ty \in TH1Classes
       THEN heap_1[value_1.v] = heap_2[value_2.v]
       ELSE value_1.v = value_2.v

\* Two arguments are one and the same object.
RECURSIVE SameObject(_, _)
SameObject(value_1, value_2) ==
    /\ value_1.ty = value_2.ty
    /\ IF value_1.ty = "tuple"
       THEN \A k \in 1..4 : SameObject(value_1.items[k], value_2.items[k])
       ELSE value_1.v = value_2.v

\* C13: add(1, x, 1, x) equals multiply(2, x) for every scalar x, every
\* histogram x bin by bin, and every uncertainty tuple x component by
\* component.
AddTwiceIsDouble ==
    ( /\ fop = "add"
      /\ fin.coefficient_1 = Scalar("int", 1)
      /\ fin.coefficient_2 = Scalar("int", 1)
      /\ fin.value_1.ty # "NoneType"
      /\ SameObject(fin.value_1, fin.value_2) ) =>
        LET doubled == multiply(fin.heap, Scalar("int", 2), fin.value_1)
        IN  /\ ~IsRaised(fout.result)
            /\ SameValue(fout.heap, fout.result,
                         doubled.heap, doubled.result)

\* add(1, x, 1, x) has returned for a tuple x with an overall component, a
\* None and a histogram with a bin that is not zero.
AddTwiceIsDoubleWitness ==
    /\ fop = "add"
    /\ fin.coefficient_1 = Scalar("int", 1)
    /\ fin.coefficient_2 = Scalar("int", 1)
    /\ SameObject(fin.value_1, fin.value_2)
    /\ fin.value_1.ty = "tuple"
    /\ fin.value_1.items[1].ty = "float"
    /\ fin.value_1.items[2].ty = "NoneType"
    /\ fin.value_1.items[3].ty = "TH1F"
    /\ fout.result.ty = "tuple"
    /\ fout.heap[fout.result.items[3].v][1] = 2 * fin.heap[fin.value_1.items[3].v][1]
    /\ fout.heap[fout.result.items[3].v][1] # 0

\* The k-th component of the result is c1*v1[k] + c2*v2[k].
ComponentIsSum(k) ==
    LET a == fin.value_1.items[k]
        b == fin.value_2.items[k]
        c == fout.result.items[k]
    IN  /\ c.ty # "NoneType"
        /\ IF a.ty \in TH1Classes
           THEN /\ c.ty = a.ty
                /\ c.v > Len(fin.heap)
                /\ fout.heap[c.v] =
                       [i \in 1..MaxBins |->
                           fin.coefficient_1.v * fin.heap[a.v][i]
                               + fin.coefficient_2.v * fin.heap[b.v][i]]
           ELSE c.v = fin.coefficient_1.v * a.v + fin.coefficient_2.v * b.v

\* The k-th component of the result is c*v[k].
ComponentIsProduct(k) ==
    LET a == fin.value_1.items[k]
        c == fout.result.items[k]
    IN  /\ c.ty # "NoneType"
        /\ IF a.ty \in TH1Classes
           THEN /\ c.ty = a.ty
                /\ c.v > Len(fin.heap)
                /\ fout.heap[c.v] =
                       [i \in 1..MaxBins |->
                           fin.coefficient_1.v * fin.heap[a.v][i]]
           ELSE c.v = fin.coefficient_1.v * a.v

\* C14: the sum of two uncertainty tuples (whose components have the same
\* types where both are present) is a tuple whose k-th component is None
\* exactly when the k-th component of at least one operand is None, and is
\* c1*v1[k] + c2*v2[k] otherwise; the product of a coefficient and a tuple
\* keeps None where the tuple has None and has c*v[k] elsewhere.
TupleComponents ==
    /\ ( /\ fop = "add"
         /\ fin.value_1.ty = "tuple"
         /\ fin.value_2.ty = "tuple"
         /\ ~Mismatched(fin.value_1, fin.value_2) ) =>
            /\ fout.result.ty = "tuple"
            /\ Len(fout.result.items) = 4
            /\ \A k \in 1..4 :
                 IF NoneIn(fin.value_1.items[k], fin.value_2.items[k])
                 THEN fout.result.items[k].ty = "NoneType"
                 ELSE ComponentIsSum(k)
    /\ (fop = "multiply" /\ fin.value_1.ty = "tuple") =>
            /\ fout.result.ty = "tuple"
            /\ Len(fout.result.items) = 4
            /\ \A k \in 1..4 :
                 IF fin.value_1.items[k].ty = "NoneType"
                 THEN fout.result.items[k].ty = "NoneType"
                 ELSE ComponentIsProduct(k)

\* add has returned the sum of two tuples: a component present in the second
\* operand only, one present in the first only, and a histogram present in
\* both.
TupleComponentsWitness ==
    /\ fop = "add"
    /\ fin.value_1.ty = "tuple"
    /\ fin.value_2.ty = "tuple"
    /\ fin.value_1.items[1].ty = "NoneType"
    /\ fin.value_2.items[1].ty = "float"
    /\ fin.value_1.items[2].ty = "int"
    /\ fin.value_2.items[2].ty = "NoneType"
    /\ fin.value_1.items[3].ty = "TH1F"
    /\ fin.value_2.items[3].ty = "TH1F"
    /\ fout.result.ty = "tuple"
    /\ fout.result.items[1].ty = "NoneType"
    /\ fout.result.items[2].ty = "NoneType"
    /\ fout.result.items[3].ty = "TH1F"

----------------------------------------------------------------------------
(* estimation.py over an Uncertainty: the calculation returns an           *)
(* uncertainty tuple, its nominal calculation is a Count                   *)

\* The uncertainty tuples the Uncertainty returns for a component: shape
\* only, overall only, overall and shape, overall up only, overall up with
\* both shapes.
UncertaintyTuples ==
    {Tuple(<<None, None, Scalar("float64", 5), Scalar("float64", 4)>>),
     Tuple(<<Scalar("float", 2), Scalar("float", 3), None, None>>),
     Tuple(<<Scalar("float", 2), Scalar("float", 3),
             Scalar("float64", 5), Scalar("float64", 4)>>),
     Tuple(<<Scalar("float", 2), None, None, None>>),
     Tuple(<<Scalar("float", 2), None,
             Scalar("float64", 5), Scalar("float64", 4)>>)}

\* What is noted for a component whose uncertainty is not computed.
NotCalled == Tuple(<< >>)

\* The components of the estimation: A with coefficient 1.0 and B with
\* coefficient -1.0 in the weighted region, with or without the uncertainty.
UncertainComponents ==
    {Component(k[1], use_nominal, k[2], RegionSR) :
        k \in {<<Scalar("float", 1), ProcessA>>,
               <<Scalar("float", 0 - 1), ProcessB>>},
        use_nominal \in BOOLEAN}

UncertainComponentLists ==
    UNION {[1..n -> UncertainComponents] : n \in 0..MaxComponents}

\* (None, None, up, down), or the exception that up or down has raised.
ShapeTuple(up, down) ==
    IF IsRaised(up) THEN up
    ELSE IF IsRaised(down) THEN down
    ELSE Tuple(<<None, None, up, down>>)

\* A conversion that puts the down variation in the up slot and the up
\* variation in the down slot.
to_shape_swapped(heap, uncertainty, nominal) ==
    IF \/ uncertainty.items[1].ty = "NoneType"
       \/ uncertainty.items[2].ty = "NoneType"
    THEN Result(heap, uncertainty)
    ELSE LET up == multiply(heap, uncertainty.items[2], nominal)
             down == multiply(up.heap, uncertainty.items[1], nominal)
         IN  Result(down.heap, ShapeTuple(up.result, down.result))

\* to_shape; the histograms multiply makes are new objects of the heap
to_shape(heap, uncertainty, nominal) ==
    IF \/ uncertainty.items[1].ty = "NoneType"
       \/ uncertainty.items[2].ty = "NoneType"
    THEN Result(heap, uncertainty)
    ELSE LET up == multiply(heap, uncertainty.items[1], nominal)
             down == multiply(up.heap, uncertainty.items[2], nominal)
         IN  Result(down.heap, ShapeTuple(up.result, down.result))

\* nominal(coefficient, process, region), n the value of the nominal
\* calculation
EstimationNominal(coefficient, n) ==
    LET scaled == multiply(<< >>, coefficient, n).result
    IN  ShapeTuple(scaled, scaled)

\* uncertainty(coefficient, process, region), u the value of the uncertainty
\* calculation and n that of the nominal calculation
EstimationUncertainty(coefficient, u, n) ==
    LET shape == to_shape(<< >>, u, n).result
    IN  IF IsRaised(shape) THEN shape
        ELSE ShapeTuple(multiply(<< >>, coefficient, shape.items[3]).result,
                        multiply(<< >>, coefficient, shape.items[4]).result)

\* The faux-uncertainty tuple of a component.
ComponentValue(component, u, n) ==
    IF component.use_nominal
    THEN EstimationNominal(component.coefficient, n)
    ELSE EstimationUncertainty(component.coefficient, u, n)

\* What the Uncertainty may return for a component.
UncertaintyReturns(component) ==
    IF component.use_nominal THEN {NotCalled} ELSE UncertaintyTuples

InitUncertainEstimation == ObjectsEmpty /\ CacheIdle /\ EstIdle /\ FnIdle

\* Estimation.__call__ up to the first value, the calculation being an
\* Uncertainty.
UncertainEstimationCall ==
    \E components \in UncertainComponentLists,
       weighted_combination \in BOOLEAN :
        /\ epc = "idle"
        /\ IF NoComponents(components)
           THEN EstimationRaises(components, weighted_combination,
                                 "ValueError")
           ELSE \E used \in {IF weighted_combination THEN components
                             ELSE Unweighted(components)} :
                \E u \in UncertaintyReturns(used[1]) :
                \E r \in {CachedCall(CountCall(used[1]), NoHints, store,
                                     loaderCache)} :
                \E value \in {ComponentValue(used[1], u, r.value)} :
                    /\ ecomps' = used
                    /\ ewc' = weighted_combination
                    /\ eidx' = 1
                    /\ eresult' = value
                    /\ epc' = IF IsRaised(value) THEN "error" ELSE "running"
                    /\ ecalls' = <<u>>
                    /\ store' = r.store
                    /\ computations' =
                          IF r.computed
                          THEN Counted(computations, CountCall(used[1]))
                          ELSE computations
        /\ UNCHANGED <<ret, pending, bcalls, bidx, bhints, bpc, invoked,
                       loaderCache, loads, berror, ncalls, objVars,
                       fnVars>>

\* One turn of the loop over components[1:], the calculation being an
\* Uncertainty: the faux-uncertainty tuple of the component is computed and
\* its shapes are added to those of the result.
UncertainEstimationStep ==
    /\ epc = "running"
    /\ eresult.ty = "tuple"
    /\ eidx < Len(ecomps)
    /\ \E c \in {ecomps[eidx + 1]} :
       \E u \in UncertaintyReturns(c) :
       \E r \in {CachedCall(CountCall(c), NoHints, store, loaderCache)} :
       \E value \in {ComponentValue(c, u, r.value)} :
       \E sum \in {IF IsRaised(value) THEN value
                   ELSE ShapeTuple(
                            add(<< >>, Scalar("float", 1), eresult.items[3],
                                Scalar("float", 1), value.items[3]).result,
                            add(<< >>, Scalar("float", 1), eresult.items[4],
                                Scalar("float", 1), value.items[4]).result)} :
           /\ ecalls' = Append(ecalls, u)
           /\ store' = r.store
           /\ computations' = IF r.computed
                              THEN Counted(computations, CountCall(c))
                              ELSE computations
           /\ eresult' = sum
           /\ eidx' = eidx + 1
           /\ epc' = IF IsRaised(sum) THEN "error" ELSE "running"
    /\ UNCHANGED <<ecomps, ewc, ret, pending, bcalls, bidx, bhints, bpc,
                   invoked, loaderCache, loads, berror, ncalls, objVars,
                   fnVars>>

NextUncertainEstimation ==
    \/ UncertainEstimationCall
    \/ UncertainEstimationStep
    \/ EstimationReturn

SpecUncertainEstimation ==
    InitUncertainEstimation /\ [][NextUncertainEstimation]_vars

----------------------------------------------------------------------------
(* Claims about estimation over an Uncertainty *)

\* The up (slot = 3) or down (slot = 4) contribution of the i-th component:
\* coefficient times nominal when use_nominal is set, else coefficient times
\* the overall of the component's uncertainty times nominal or, with no
\* overall, coefficient times its shape.
Contribution(i, slot) ==
    LET c == ecomps[i]
        n == CountBody(c.process, c.region).v
        u == ecalls[i]
    IN  IF c.use_nominal THEN c.coefficient.v * n
        ELSE IF u.items[slot - 2].ty # "NoneType"
        THEN c.coefficient.v * u.items[slot - 2].v * n
        ELSE IF u.items[slot].ty # "NoneType"
        THEN c.coefficient.v * u.items[slot].v
        ELSE 0

RECURSIVE ContributionSum(_, _)
ContributionSum(i, slot) ==
    IF i > Len(ecomps) THEN 0
    ELSE Contribution(i, slot) + ContributionSum(i + 1, slot)

\* C11: with an Uncertainty as the calculation, Estimation.__call__ over a
\* non-empty component list raises no error and returns
\* (None, None, S_up, S_down), S_up and S_down the sums of the components'
\* contributions, for every uncertainty tuple a component returns: overall
\* only, shape only, or only one of the two overall components.
UncertainEstimationSums ==
    Len(ecomps) > 0 =>
        /\ epc # "error"
        /\ epc = "returned" =>
            /\ eresult.ty = "tuple"
            /\ eresult.items[1].ty = "NoneType"
            /\ eresult.items[2].ty = "NoneType"
            /\ eresult.items[3].v = ContributionSum(1, 3)
            /\ eresult.items[4].v = ContributionSum(1, 4)

----------------------------------------------------------------------------
(* histogramming.py: construction of Binning and Histogram                 *)

\* Largest edge or bin count, most edges of a variable binning, most axes of
\* a histogram.
MaxEdge == 2
MaxEdges == 3
MaxAxes == 2

\* An object of a class, and a Python str.
Instance(class, fields) == [ty |-> class, v |-> fields]
Str(characters) == [ty |-> "str", v |-> characters]

\* all(x <= y for x, y in zip(edges, edges[1:]))
NonDecreasing(edges) ==
    \A i \in 1..(Len(edges) - 1) : edges[i] <= edges[i + 1]

\* all(x < y for x, y in zip(edges, edges[1:]))
StrictlyIncreasing(edges) ==
    \A i \in 1..(Len(edges) - 1) : edges[i] < edges[i + 1]

\* The fields of a 'variable' binning.
VariableBinning(edges) ==
    [type |-> "variable", low |-> 0, high |-> 0, n_bins |-> 0,
     edges |-> edges]

\* Binning.__init__(type, *args)
BinningInit(type, args) ==
    IF type \notin {"fixed", "variable"} THEN Raised("ValueError")
    ELSE IF type = "fixed"
    THEN LET low_bin_left_edge == args[1]
             high_bin_right_edge == args[2]
             n_bins == args[3]
         IN  IF n_bins < 1 THEN Raised("ValueError")
             ELSE IF low_bin_left_edge >= high_bin_right_edge
             THEN Raised("ValueError")
             ELSE Instance("Binning",
                           FixedBinning(low_bin_left_edge,
                                        high_bin_right_edge, n_bins))
    ELSE IF Len(args) < 2 THEN Raised("ValueError")
    ELSE IF ~StrictlyIncreasing(args) THEN Raised("ValueError")
    ELSE Instance("Binning", VariableBinning(args))

\* len(self._expressions), len(self._binnings)
StoredLength(stored) == Len(stored.items)

\* Histogram.__init__(expressions, binnings, ...)
HistogramInit(expressions, binnings) ==
    LET stored_expressions ==
            IF expressions.ty = "str" THEN Tuple(<<expressions>>)
            ELSE expressions
        stored_binnings ==
            IF binnings.ty = "Binning" THEN Tuple(<<binnings>>)
            ELSE binnings
    IN  IF StoredLength(stored_expressions) # StoredLength(stored_binnings)
        THEN Raised("ValueError")
        ELSE Instance("Histogram",
                      [expressions |-> stored_expressions,
                       binnings |-> stored_binnings])

\* The arguments of Binning: a type and numbers; a 'fixed' binning is given
\* three numbers.
BinningTypes == {"fixed", "variable", "log"}
BinningNumbers == UNION {[1..n -> 0..MaxEdge] : n \in 0..MaxEdges}
BinningArguments ==
    {a \in [class : {"Binning"}, type : BinningTypes, args : BinningNumbers] :
        a.type = "fixed" => Len(a.args) = 3}

\* The arguments of Histogram: a string or a tuple of strings, a Binning or
\* a tuple of Binnings.
ExpressionArguments ==
    {Str(Str_x), Str(Str_x_gt_0)}
        \cup {Tuple([i \in 1..n |-> Str(Str_x)]) : n \in 0..MaxAxes}
BinningInstances ==
    {Instance("Binning", BinningX),
     Instance("Binning", VariableBinning(<<0, 1, 2>>))}
BinningsArguments ==
    BinningInstances
        \cup UNION {{Tuple(t) : t \in [1..n -> BinningInstances]} :
                        n \in 0..MaxAxes}
HistogramArguments ==
    [class : {"Histogram"}, expressions : ExpressionArguments,
     binnings : BinningsArguments]

InitBinning ==
    /\ ObjectsEmpty /\ CacheIdle /\ EstIdle
    /\ fin \in BinningArguments \cup HistogramArguments
    /\ fop = "none"
    /\ fout = << >>

\* Binning(type, *args)
BinningConstructed ==
    /\ fop = "none"
    /\ fin.class = "Binning"
    /\ fop' = "Binning"
    /\ fout' = BinningInit(fin.type, fin.args)
    /\ UNCHANGED <<fin, objVars, cacheVars, estVars>>

\* Histogram(expressions, binnings, title, x_label, y_label)
HistogramConstructed ==
    /\ fop = "none"
    /\ fin.class = "Histogram"
    /\ fop' = "Histogram"
    /\ fout' = HistogramInit(fin.expressions, fin.binnings)
    /\ UNCHANGED <<fin, objVars, cacheVars, estVars>>

NextBinning ==
    \/ BinningConstructed
    \/ HistogramConstructed

SpecBinning == InitBinning /\ [][NextBinning]_vars

----------------------------------------------------------------------------
(* Claims about the construction of Binning and Histogram *)

\* The binning specifications that are invalid: a fixed binning with
\* n_bins < 1 or low >= high, a variable binning with fewer than two edges
\* or with an edge that is not above the one before it, any other type.
InvalidBinning(type, args) ==
    \/ type = "fixed" /\ (args[3] < 1 \/ args[1] >= args[2])
    \/ type = "variable"
         /\ \/ Len(args) < 2
            \/ \E i \in 1..(Len(args) - 1) : args[i] >= args[i + 1]
    \/ type \notin {"fixed", "variable"}

\* The number of expressions or binnings given: one for a string or a
\* Binning, else the length of the tuple.
NumberGiven(argument) ==
    IF argument.ty \in {"str", "Binning"} THEN 1 ELSE Len(argument.items)

\* C19: the construction of a Binning fails exactly for the invalid binning
\* specifications, and the construction of a Histogram fails exactly when
\* the number of expressions differs from the number of binnings; every
\* other specification gives the object with the values given.
BinningValidation ==
    /\ fop = "Binning" =>
        IF InvalidBinning(fin.type, fin.args)
        THEN fout.ty = "ValueError"
        ELSE /\ fout.ty = "Binning"
             /\ fout.v.type = fin.type
             /\ fin.type = "fixed" =>
                    <<fout.v.low, fout.v.high, fout.v.n_bins>> = fin.args
             /\ fin.type = "variable" => fout.v.edges = fin.args
    /\ fop = "Histogram" =>
        IF NumberGiven(fin.expressions) # NumberGiven(fin.binnings)
        THEN fout.ty = "ValueError"
        ELSE /\ fout.ty = "Histogram"
             /\ Len(fout.v.expressions.items) = NumberGiven(fin.expressions)
             /\ Len(fout.v.binnings.items) = NumberGiven(fin.binnings)

\* A variable binning with two equal edges has been refused.
BinningValidationWitness ==
    /\ fop = "Binning"
    /\ fin.type = "variable"
    /\ Len(fin.args) = MaxEdges
    /\ fin.args[1] < fin.args[2]
    /\ fin.args[2] = fin.args[3]
    /\ fout.ty = "ValueError"

----------------------------------------------------------------------------
(* uncertainty.py: to_overall and ratio_uncertainty_band                   *)

\* A float, as the quotient of two integers.
Float(num, den) == [ty |-> "float", num |-> num, den |-> den]

\* a / b of Python
Divide(a, b) ==
    IF b = 0 THEN Raised("ZeroDivisionError") ELSE Float(a, b)

\* A comparison with zero that never finds it.
IsZeroNever(value) == FALSE

\* nominal_integral == 0.0, denominator_value == 0.0
IsZero(value) == value = 0

\* histogram.Integral(1, histogram.GetNbinsX()), the histogram being the
\* sequence of the contents of its bins
RECURSIVE Integral(_)
Integral(histogram) ==
    IF histogram = << >> THEN 0
    ELSE Head(histogram) + Integral(Tail(histogram))

\* to_overall
to_overall(shape, nominal) ==
    LET shape_integral == Integral(shape)
        nominal_integral == Integral(nominal)
    IN  IF IsZero(nominal_integral) THEN Float(0, 1)
        ELSE Divide(shape_integral, nominal_integral)

\* A point of a TGraphAsymmErrors.
Point(x, y, eyhigh, eylow) ==
    [x |-> x, y |-> y, eyhigh |-> eyhigh, eylow |-> eylow]

\* One turn of the loop of ratio_uncertainty_band, for the point of a bin.
RatioPoint(denominator, band, bin) ==
    LET denominator_value == denominator[bin]
    IN  IF IsZero(denominator_value)
        THEN Point(band[bin].x, Float(1, 1), Float(0, 1), Float(0, 1))
        ELSE Point(band[bin].x, Float(1, 1),
                   Divide(band[bin].eyhigh, denominator_value),
                   Divide(band[bin].eylow, denominator_value))

\* ratio_uncertainty_band: a clone of the band with the points of the bins
\* of the denominator set; a division that raises ends the function.
ratio_uncertainty_band(denominator, band) ==
    LET bins == Len(denominator)
        result == [point \in 1..Len(band) |->
                      IF point <= bins
                      THEN RatioPoint(denominator, band, point)
                      ELSE band[point]]
    IN  IF \E point \in 1..bins :
               \/ IsRaised(result[point].eyhigh)
               \/ IsRaised(result[point].eylow)
        THEN Raised("ZeroDivisionError")
        ELSE Instance("TGraphAsymmErrors", result)

\* The histograms: every content of -1, 0 and 1 in every bin.
BinContents == [1..MaxBins -> {0 - 1, 0, 1}]

\* The uncertainty bands of a histogram: a point per bin, at y = 3, with
\* errors of 0, 1 or 2.
Bands ==
    {[bin \in 1..MaxBins |-> Point(bin, 3, high[bin], low[bin])] :
        high \in [1..MaxBins -> {1, 2}], low \in [1..MaxBins -> {0, 1}]}

RatioArguments ==
    [fn : {"to_overall"}, shape : BinContents, nominal : BinContents]
        \cup [fn : {"ratio_uncertainty_band"}, denominator : BinContents,
              band : Bands]

InitRatio ==
    /\ ObjectsEmpty /\ CacheIdle /\ EstIdle
    /\ fin \in RatioArguments
    /\ fop = "none"
    /\ fout = << >>

\* to_overall(shape, nominal)
ToOverallCalled ==
    /\ fop = "none"
    /\ fin.fn = "to_overall"
    /\ fop' = "to_overall"
    /\ fout' = to_overall(fin.shape, fin.nominal)
    /\ UNCHANGED <<fin, objVars, cacheVars, estVars>>

\* ratio_uncertainty_band(denominator, band)
RatioUncertaintyBandCalled ==
    /\ fop = "none"
    /\ fin.fn = "ratio_uncertainty_band"
    /\ fop' = "ratio_uncertainty_band"
    /\ fout' = ratio_uncertainty_band(fin.denominator, fin.band)
    /\ UNCHANGED <<fin, objVars, cacheVars, estVars>>

NextRatio ==
    \/ ToOverallCalled
    \/ RatioUncertaintyBandCalled

SpecRatio == InitRatio /\ [][NextRatio]_vars

----------------------------------------------------------------------------
(* Claims about to_overall and ratio_uncertainty_band *)

\* The sum of the contents of the bins from the i-th on.
RECURSIVE SumFrom(_, _)
SumFrom(contents, i) ==
    IF i > Len(contents) THEN 0 ELSE contents[i] + SumFrom(contents, i + 1)

\* C20: to_overall returns 0 when the integral of nominal is 0 and the
\* quotient of the integrals otherwise; ratio_uncertainty_band raises no
\* error and gives every point y = 1, both errors 0 where the content of the
\* denominator's bin is 0, and the band's errors divided by the content
\* elsewhere.
ZeroDenominators ==
    /\ fop = "to_overall" =>
        /\ fout.ty = "float"
        /\ IF SumFrom(fin.nominal, 1) = 0
           THEN fout.num = 0
           ELSE /\ fout.num = SumFrom(fin.shape, 1)
                /\ fout.den = SumFrom(fin.nominal, 1)
    /\ fop = "ratio_uncertainty_band" =>
        /\ fout.ty = "TGraphAsymmErrors"
        /\ Len(fout.v) = Len(fin.band)
        /\ \A point \in 1..Len(fout.v) :
            /\ fout.v[point].x = fin.band[point].x
            /\ fout.v[point].y = Float(1, 1)
            /\ fout.v[point].eyhigh.ty = "float"
            /\ fout.v[point].eylow.ty = "float"
            /\ IF fin.denominator[point] = 0
               THEN /\ fout.v[point].eyhigh.num = 0
                    /\ fout.v[point].eylow.num = 0
               ELSE /\ fout.v[point].eyhigh =
                           Float(fin.band[point].eyhigh,
                                 fin.denominator[point])
                    /\ fout.v[point].eylow =
                           Float(fin.band[point].eylow,
                                 fin.denominator[point])

\* ratio_uncertainty_band has returned for a denominator with an empty bin
\* and a filled bin: the errors of the first point are 0, an error of the
\* second is not.
ZeroDenominatorsWitness ==
    /\ fop = "ratio_uncertainty_band"
    /\ fin.denominator[1] = 0
    /\ fin.denominator[2] # 0
    /\ fin.band[1].eyhigh # 0
    /\ fout.ty = "TGraphAsymmErrors"
    /\ fout.v[1].eyhigh.num = 0
    /\ fout.v[2].eyhigh.num # 0

----------------------------------------------------------------------------
(* uncertainty.py: to_shape on a nominal histogram, and to_overall on the  *)
(* shapes it returns                                                       *)

\* The overall components of the uncertainty handed to to_shape.
OverallComponents == {None, Scalar("int", 2), Scalar("int", 3)}

RoundTripArguments ==
    [heap : {<<nominal>> : nominal \in BinContents},
     uncertainty : {Tuple(<<overall_up, overall_down, None, None>>) :
                        overall_up \in OverallComponents,
                        overall_down \in OverallComponents},
     nominal : {TH1("TH1F", 1)}]

InitRoundTrip ==
    /\ ObjectsEmpty /\ CacheIdle /\ EstIdle
    /\ fin \in RoundTripArguments
    /\ fop = "none"
    /\ fout = << >>

\* to_shape(uncertainty, nominal)
ToShapeCalled ==
    /\ fop = "none"
    /\ fop' = "to_shape"
    /\ fout' = to_shape(fin.heap, fin.uncertainty, fin.nominal)
    /\ UNCHANGED <<fin, objVars, cacheVars, estVars>>

\* to_overall(shape_up, nominal) and to_overall(shape_down, nominal), for
\* the shapes to_shape has returned
ShapesToOverallCalled ==
    /\ fop = "to_shape"
    /\ fout.result.ty = "tuple"
    /\ fout.result.items[3].ty \in TH1Classes
    /\ fout.result.items[4].ty \in TH1Classes
    /\ fop' = "to_overall"
    /\ fout' = [heap |-> fout.heap,
                result |-> fout.result,
                up |-> to_overall(fout.heap[fout.result.items[3].v],
                                  fout.heap[fin.nominal.v]),
                down |-> to_overall(fout.heap[fout.result.items[4].v],
                                    fout.heap[fin.nominal.v])]
    /\ UNCHANGED <<fin, objVars, cacheVars, estVars>>

NextRoundTrip ==
    \/ ToShapeCalled
    \/ ShapesToOverallCalled

SpecRoundTrip == InitRoundTrip /\ [][NextRoundTrip]_vars

----------------------------------------------------------------------------
(* Claims about the conversion of overall to shape and back *)

\* The uncertainty handed to to_shape is (u, d, None, None).
OverallOnly ==
    /\ fin.uncertainty.items[1].ty # "NoneType"
    /\ fin.uncertainty.items[2].ty # "NoneType"

\* C21: for an uncertainty (u, d, None, None) and a nominal histogram,
\* to_shape returns (None, None, u*nominal, d*nominal) bin by bin and leaves
\* nominal as it was; when the integral of nominal is not zero, to_overall of
\* these shapes against the same nominal gives u and d.
OverallRoundTrip ==
    (fop \in {"to_shape", "to_overall"} /\ OverallOnly) =>
        LET u == fin.uncertainty.items[1].v
            d == fin.uncertainty.items[2].v
            nominal == fin.heap[fin.nominal.v]
        IN  /\ fout.result.ty = "tuple"
            /\ fout.result.items[1].ty = "NoneType"
            /\ fout.result.items[2].ty = "NoneType"
            /\ fout.heap[fin.nominal.v] = nominal
            /\ fout.heap[fout.result.items[3].v] =
                   [bin \in 1..MaxBins |-> u * nominal[bin]]
            /\ fout.heap[fout.result.items[4].v] =
                   [bin \in 1..MaxBins |-> d * nominal[bin]]
            /\ (fop = "to_overall" /\ SumFrom(nominal, 1) # 0) =>
                   /\ fout.up.ty = "float"
                   /\ fout.up.num = u * fout.up.den
                   /\ fout.down.ty = "float"
                   /\ fout.down.num = d * fout.down.den

\* The shapes of (2, 3, None, None) over a nominal with integral 2 have been
\* converted back.
OverallRoundTripWitness ==
    /\ fop = "to_overall"
    /\ OverallOnly
    /\ fin.uncertainty.items[1].v = 2
    /\ fin.uncertainty.items[2].v = 3
    /\ SumFrom(fin.heap[fin.nominal.v], 1) = 2
    /\ fout.up = Float(4, 2)
    /\ fout.down = Float(6, 2)

----------------------------------------------------------------------------
(* environment.py: load_environment                                        *)

\* What a configuration script does about a component: nothing, export the
\* symbol (persistent_cache = ..., parallelization_backend = ...), or call
\* set_persistent_cache / set_parallelization_backend itself, as
\* testing/environment.local.py does.
ScriptModes == {"nothing", "exports", "sets"}

Scripts ==
    [persistent_cache : ScriptModes, parallelization_backend : ScriptModes]

\* The script at path does nothing.
NoScript ==
    [persistent_cache |-> "nothing", parallelization_backend |-> "nothing"]

\* The .local.py script beside path: whether the file exists, and what it
\* does.
LocalScripts ==
    {[exists |-> FALSE, script |-> NoScript]}
        \cup [exists : {TRUE}, script : Scripts]

\* The path handed to load_environment: None, a path that does not exist, a
\* directory, or a file.
PathKinds == {"None", "missing", "directory", "file"}

\* The caches and backends: those in place before the call, the defaults
\* (FileSystemPersistentCache(), MultiprocessingParallelizationBackend()),
\* and those of the base script and of the .local.py script.
DefaultEnvironment ==
    [persistent_cache |-> "FileSystemPersistentCache",
     parallelization_backend |-> "MultiprocessingParallelizationBackend"]
PreviousEnvironment ==
    [persistent_cache |-> "previous", parallelization_backend |-> "previous"]

EnvironmentArguments ==
    {a \in [path : PathKinds, script : Scripts, local : LocalScripts,
            active : {PreviousEnvironment}] :
        a.path # "file" => (a.script = NoScript /\ ~a.local.exists)}

\* A check of the path that refuses only a path that does not exist.
InvalidPathMissing(path) == path = "missing"

\* not exists(path) or not isfile(path)
InvalidPath(path) == path \in {"missing", "directory"}

\* The active cache and backend after the module of a script has been
\* executed by _load_module: the calls of the setters in the script have
\* taken effect.
ModuleExecuted(active, script, name) ==
    [component \in DOMAIN active |->
        IF script[component] = "sets" THEN name ELSE active[component]]

\* result after the components of a module have been extracted: hasattr and
\* the assignment, for both components.
Extracted(result, script, name) ==
    [component \in DOMAIN result |->
        IF script[component] = "exports" THEN name ELSE result[component]]

\* result = {}
EmptyResult ==
    [persistent_cache |-> "absent", parallelization_backend |-> "absent"]

InitEnvironment ==
    /\ ObjectsEmpty /\ CacheIdle /\ EstIdle
    /\ fin \in EnvironmentArguments
    /\ fop = "none"
    /\ fout = << >>

\* load_environment(path) up to the module of the script: the check of the
\* path, _load_module(path) and the extraction of its components.
EnvironmentCalled ==
    /\ fop = "none"
    /\ IF fin.path = "None"
       THEN /\ fop' = "setting"
            /\ fout' = [active |-> fin.active, result |-> EmptyResult]
       ELSE IF InvalidPath(fin.path)
       THEN /\ fop' = "OSError"
            /\ fout' = [active |-> fin.active, result |-> EmptyResult]
       ELSE /\ fop' = "loaded"
            /\ fout' = [active |-> ModuleExecuted(fin.active, fin.script,
                                                  "base"),
                        result |-> Extracted(EmptyResult, fin.script,
                                             "base")]
    /\ UNCHANGED <<fin, objVars, cacheVars, estVars>>

\* The local overrides: the module of the .local.py script, when the file
\* exists, and the extraction of its components.
EnvironmentLocal ==
    /\ fop = "loaded"
    /\ fop' = "setting"
    /\ fout' = IF ~fin.local.exists THEN fout
               ELSE [active |-> ModuleExecuted(fout.active, fin.local.script,
                                               "local"),
                     result |-> Extracted(fout.result, fin.local.script,
                                          "local")]
    /\ UNCHANGED <<fin, objVars, cacheVars, estVars>>

\* set_persistent_cache and set_parallelization_backend, with the component
\* in result or with the default.
EnvironmentSet ==
    /\ fop = "setting"
    /\ fop' = "returned"
    /\ fout' = [fout EXCEPT !.active =
                    [component \in DOMAIN fout.result |->
                        IF fout.result[component] # "absent"
                        THEN fout.result[component]
                        ELSE DefaultEnvironment[component]]]
    /\ UNCHANGED <<fin, objVars, cacheVars, estVars>>

NextEnvironment ==
    \/ EnvironmentCalled
    \/ EnvironmentLocal
    \/ EnvironmentSet

SpecEnvironment == InitEnvironment /\ [][NextEnvironment]_vars

----------------------------------------------------------------------------
(* Claims about load_environment *)

\* The cache or backend the configuration selects: that of the .local.py
\* script when it exists and selects one, else that of the script at path
\* when it selects one, else the default.
Selected(component) ==
    IF fin.path = "None" THEN DefaultEnvironment[component]
    ELSE IF fin.local.exists /\ fin.local.script[component] # "nothing"
    THEN "local"
    ELSE IF fin.script[component] # "nothing" THEN "base"
    ELSE DefaultEnvironment[component]

\* C22: after load_environment(path) has returned, the active persistent
\* cache and parallelization backend are those selected by the script at
\* path, overridden by those the .local.py script selects; the defaults are
\* active only for a component neither script selected, or for path None.
EnvironmentSelected ==
    fop = "returned" =>
        \A component \in DOMAIN fout.active :
            fout.active[component] = Selected(component)

\* C23: load_environment(path) with a path that does not exist or is not a
\* file raises OSError, and the active persistent cache and parallelization
\* backend are those of before the call.
InvalidPathRaises ==
    (fop # "none" /\ fin.path \in {"missing", "directory"}) =>
        /\ fop = "OSError"
        /\ fout.active = fin.active
        /\ fout.result = EmptyResult

\* load_environment has raised for the path of a directory.
InvalidPathRaisesWitness ==
    /\ fop = "OSError"
    /\ fin.path = "directory"
    /\ fout.active = PreviousEnvironment

----------------------------------------------------------------------------
(* module.py: load and definitions, in the thread that imported module.py  *)

\* Most calls of load in a run.
MaxLoads == 4

\* The dictionaries handed to load.
Dictionaries == {"Adams", "Kennedy", "{}"}

\* _push_definitions(d)
push_definitions(stack, d) == Append(stack, d)

\* _pop_definitions()
pop_definitions(stack) == SubSeq(stack, 1, Len(stack) - 1)

\* A load without try/finally: nothing is popped when the module raises.
AfterRaiseNoFinally(stack) == stack

\* The finally clause of load, reached by an exception of _load_module.
AfterRaise(stack) == pop_definitions(stack)

\* definitions()
definitions(stack) ==
    IF Len(stack) = 0 THEN "None" ELSE stack[Len(stack)]

\* fin holds the dictionaries of the calls of load made so far; fout holds
\* _thread_local.definitions (stack), the dictionaries of the calls of load
\* in progress, outermost first (loading), and what the last call of
\* definitions() returned (returned).
InitModule ==
    /\ ObjectsEmpty /\ CacheIdle /\ EstIdle
    /\ fin = << >>
    /\ fop = "none"
    /\ fout = [stack |-> << >>, loading |-> << >>, returned |-> "None"]

\* load(path, d) is called, from the program or from a module being loaded:
\* the dictionary is pushed and the module starts to execute.
LoadCalled ==
    /\ Len(fin) < MaxLoads
    /\ \E d \in Dictionaries :
        /\ fin' = Append(fin, d)
        /\ fop' = "load"
        /\ fout' = [fout EXCEPT !.stack = push_definitions(fout.stack, d),
                                !.loading = Append(fout.loading, d)]
    /\ UNCHANGED <<objVars, cacheVars, estVars>>

\* definitions() is called, by the module being loaded or outside any load.
DefinitionsCalled ==
    /\ fop' = "definitions"
    /\ fout' = [fout EXCEPT !.returned = definitions(fout.stack)]
    /\ UNCHANGED <<fin, objVars, cacheVars, estVars>>

\* The module of the innermost load has executed: finally, and the return.
LoadReturned ==
    /\ fout.loading # << >>
    /\ fop' = "returned"
    /\ fout' = [fout EXCEPT !.stack = pop_definitions(fout.stack),
                            !.loading = SubSeq(fout.loading, 1,
                                               Len(fout.loading) - 1)]
    /\ UNCHANGED <<fin, objVars, cacheVars, estVars>>

\* The module of the innermost load has raised: finally, and the exception
\* leaves load.
LoadRaised ==
    /\ fout.loading # << >>
    /\ fop' = "raised"
    /\ fout' = [fout EXCEPT !.stack = AfterRaise(fout.stack),
                            !.loading = SubSeq(fout.loading, 1,
                                               Len(fout.loading) - 1)]
    /\ UNCHANGED <<fin, objVars, cacheVars, estVars>>

NextModule ==
    \/ LoadCalled
    \/ DefinitionsCalled
    \/ LoadReturned
    \/ LoadRaised

SpecModule == InitModule /\ [][NextModule]_vars

----------------------------------------------------------------------------
(* Claims about module.py *)

\* C24: definitions() returns the dictionary of the innermost load in
\* progress and None outside any load; the stack holds the dictionaries of
\* the loads in progress and nothing else, after loads that returned and
\* loads that raised, so that it is empty when no load is in progress and a
\* later load sees its own dictionary.
DefinitionsStack ==
    /\ fout.stack = fout.loading
    /\ fout.loading = << >> => fout.stack = << >>
    /\ fop = "definitions" =>
        fout.returned = IF fout.loading = << >> THEN "None"
                        ELSE fout.loading[Len(fout.loading)]
    /\ fop = "load" => definitions(fout.stack) = fin[Len(fin)]

\* Two loads, the first with another dictionary, are over; a third load is
\* in progress and definitions() has returned its dictionary.
DefinitionsStackWitness ==
    /\ fop = "definitions"
    /\ Len(fin) = 3
    /\ fin[1] = "Adams"
    /\ fin[3] = "Kennedy"
    /\ fout.stack = <<"Kennedy">>
    /\ fout.loading = <<"Kennedy">>
    /\ fout.returned = "Kennedy"

----------------------------------------------------------------------------
(* config.py: load_config                                                  *)

\* Number of top-level keys a configuration file can hold.
MaxKeys == 2

\* The values of the base file and of the .local.yml file: a scalar or a
\* nested mapping.
BaseValues == {[scalar |-> "base"], [a |-> "base", b |-> "base"]}
LocalValues == {[scalar |-> "local"], [a |-> "local"]}

\* The configurations with values from a set: a value for each key of a set
\* of top-level keys.
Configurations(values) ==
    UNION {[keys -> values] : keys \in SUBSET (1..MaxKeys)}

\* A configuration file: whether the path is a file, and its contents.
ConfigurationFiles(values) ==
    {[exists |-> FALSE, contents |-> << >>]}
        \cup [exists : {TRUE}, contents : Configurations(values)]

\* What load_config returns: a configuration, or None.
Configuration(contents) == [ty |-> "OrderedDict", v |-> contents]

\* owls_config.load(path): None when the path does not exist or is not a
\* file
OwlsConfigLoad(file) ==
    IF file.exists THEN Configuration(file.contents) ELSE None

\* An update that keeps the value of a key the dictionary already has.
UpdateKeeping(result, local) ==
    [key \in DOMAIN result \cup DOMAIN local |->
        IF key \in DOMAIN result THEN result[key] ELSE local[key]]

\* result.update(local)
Update(result, local) ==
    [key \in DOMAIN result \cup DOMAIN local |->
        IF key \in DOMAIN local THEN local[key] ELSE result[key]]

\* load_config(path), base the file at path and local the file at the path
\* with .local.yml
load_config(base, local) ==
    LET result == OwlsConfigLoad(base)
    IN  IF result.ty = "NoneType" THEN None
        ELSE LET loaded == OwlsConfigLoad(local)
             IN  IF loaded.ty # "NoneType"
                 THEN Configuration(Update(result.v, loaded.v))
                 ELSE result

InitConfig ==
    /\ ObjectsEmpty /\ CacheIdle /\ EstIdle
    /\ fin \in [base : ConfigurationFiles(BaseValues),
                local : ConfigurationFiles(LocalValues)]
    /\ fop = "none"
    /\ fout = << >>

\* load_config(path)
LoadConfigCalled ==
    /\ fop = "none"
    /\ fop' = "load_config"
    /\ fout' = load_config(fin.base, fin.local)
    /\ UNCHANGED <<fin, objVars, cacheVars, estVars>>

NextConfig == LoadConfigCalled

SpecConfig == InitConfig /\ [][NextConfig]_vars

----------------------------------------------------------------------------
(* Claims about load_config *)

\* C25: load_config returns None when the base file is missing, whether or
\* not the local file exists; else it returns the keys of both files, every
\* key of the local file with the whole local value, nested or not, and
\* every key of the base file alone with its base value.
LocalKeysWin ==
    fop = "load_config" =>
        IF ~fin.base.exists THEN fout.ty = "NoneType"
        ELSE /\ fout.ty = "OrderedDict"
             /\ DOMAIN fout.v =
                    DOMAIN fin.base.contents
                        \cup (IF fin.local.exists
                              THEN DOMAIN fin.local.contents ELSE {})
             /\ \A key \in DOMAIN fout.v :
                    IF fin.local.exists /\ key \in DOMAIN fin.local.contents
                    THEN fout.v[key] = fin.local.contents[key]
                    ELSE fout.v[key] = fin.base.contents[key]

\* A nested value of the base file has been replaced by the nested value of
\* the local file, and a key of the base file alone is kept.
LocalKeysWinWitness ==
    /\ fop = "load_config"
    /\ fin.base.exists
    /\ fin.local.exists
    /\ DOMAIN fin.base.contents = {1, 2}
    /\ DOMAIN fin.local.contents = {1}
    /\ fin.base.contents[1] = [a |-> "base", b |-> "base"]
    /\ fin.local.contents[1] = [a |-> "local"]
    /\ fout.v[1] = [a |-> "local"]
    /\ fout.v[2] = fin.base.contents[2]

----------------------------------------------------------------------------
(* Exact arithmetic for math.sqrt: a number is (num / den) * sqrt(rad)      *)

RECURSIVE GCD(_, _)
GCD(a, b) == IF b = 0 THEN a ELSE GCD(b, a % b)

\* The largest s from s on whose square divides n.
RECURSIVE SquarePartFrom(_, _, _)
SquarePartFrom(n, s, best) ==
    IF s * s > n THEN best
    ELSE SquarePartFrom(n, s + 1, IF n % (s * s) = 0 THEN s ELSE best)

\* The number (num / den) * sqrt(rad) in its one normal form: the radicand
\* without a square factor, the fraction in lowest terms with a positive
\* denominator, and 0 as (0 / 1) * sqrt(1).
Real(num, den, rad) ==
    IF num = 0 \/ rad = 0 THEN [ty |-> "float", num |-> 0, den |-> 1, rad |-> 1]
    ELSE LET square == SquarePartFrom(rad, 1, 1)
             n == num * square * (IF den < 0 THEN 0 - 1 ELSE 1)
             d == Abs(den)
             g == GCD(Abs(n), d)
         IN  [ty |-> "float",
              num |-> (IF n < 0 THEN 0 - (Abs(n) \div g) ELSE n \div g),
              den |-> d \div g,
              rad |-> rad \div (square * square)]

\* An int or a float of the model as a number.
Number(x) == Real(x, 1, 1)
Quotient(f) == Real(f.num, f.den, 1)

\* a - b and a + b, of numbers without a root
Minus(a, b) == Real(a.num * b.den - b.num * a.den, a.den * b.den, 1)
Add(a, b) == Real(a.num * b.den + b.num * a.den, a.den * b.den, 1)

\* a * b and a / b (b not 0)
Product(a, b) == Real(a.num * b.num, a.den * b.den, a.rad * b.rad)
Over(a, b) == Real(a.num * b.den, a.den * b.num * b.rad, a.rad * b.rad)

\* x ** 2
Squared(x) == Real(x.num * x.num * x.rad, x.den * x.den, 1)

\* math.sqrt(x), of a number without a root that is not negative
sqrt(x) == Real(1, x.den, x.num * x.den)

\* sum(x ** 2 for x in values)
RECURSIVE SumOfSquares(_)
SumOfSquares(values) ==
    IF values = << >> THEN Number(0)
    ELSE Add(Squared(Head(values)), SumOfSquares(Tail(values)))

\* sum_quadrature
sum_quadrature(values) == sqrt(SumOfSquares(values))

----------------------------------------------------------------------------
(* uncertainty.py: uncertainty_band                                        *)

\* A histogram the estimation returned, by the contents of its bins.
Contents(bins) == [ty |-> "TH1F", bins |-> bins]

\* A conversion that drops the shape variation.
ShapeOverallDropped(shape, nominal) == None

\* shape_overall_up and shape_overall_down: None for no shape, else
\* to_overall(shape, nominal)
ShapeOverall(shape, nominal) ==
    IF shape.ty = "NoneType" THEN None
    ELSE Quotient(to_overall(shape.bins, nominal))

\* The variation appended when the component is not None.
Appended(component, variation) ==
    IF component.ty = "NoneType" THEN << >> ELSE <<variation>>

\* One turn of the second loop of uncertainty_band, on the point the first
\* loop has set to y = 0 and errors of 0.  statistical is 'uncertainty is
\* None'.
BandPoint(nominal, bin, overall_up, overall_down, shape_overall_up, shape_overall_down, statistical, unweighted) ==
    LET content == nominal[bin]
        statistical_variation ==
            IF statistical
            THEN IF content > 0 /\ unweighted[bin] > 0
                 THEN <<Over(Over(Number(content),
                                  sqrt(Number(unweighted[bin]))),
                             Number(content))>>
                 ELSE << >>
            ELSE << >>
        up_variations ==
            Appended(overall_up, Minus(overall_up, Number(1)))
                \o Appended(shape_overall_up,
                            Minus(shape_overall_up, Number(1)))
                \o statistical_variation
        down_variations ==
            Appended(overall_down, Minus(Number(1), overall_down))
                \o Appended(shape_overall_down,
                            Minus(Number(1), shape_overall_down))
                \o statistical_variation
    IN  IF content = 0
        THEN Point(bin, Number(0), Number(0), Number(0))
        ELSE Point(bin, Number(0),
                   Product(sum_quadrature(up_variations), Number(content)),
                   Product(sum_quadrature(down_variations), Number(content)))

\* uncertainty_band, from what the estimations return: nominal, and either
\* the variations of the uncertainty or, for uncertainty None, the
\* unweighted histogram.
uncertainty_band(nominal, statistical, variations, unweighted) ==
    LET overall_up == IF statistical THEN None ELSE variations[1]
        overall_down == IF statistical THEN None ELSE variations[2]
        shape_overall_up ==
            IF statistical THEN None ELSE ShapeOverall(variations[3], nominal)
        shape_overall_down ==
            IF statistical THEN None ELSE ShapeOverall(variations[4], nominal)
        bins == Len(nominal)
    IN  Instance("TGraphAsymmErrors",
                 [point \in 1..bins |->
                     BandPoint(nominal, point, overall_up, overall_down,
                               shape_overall_up, shape_overall_down,
                               statistical, unweighted)])

\* The nominal histograms, the overall and shape components of the
\* variations, and the unweighted histograms.
BandNominals == [1..MaxBins -> {0 - 1, 0, 2}]
BandOverallUp == {None, Real(3, 2, 1), Number(2)}
BandOverallDown == {None, Real(1, 2, 1)}
BandShapes == {None} \cup {Contents(bins) : bins \in [1..MaxBins -> {0, 1}]}
BandUnweighted == [1..MaxBins -> {0, 2, 4}]

BandArguments ==
    [nominal : BandNominals, statistical : {FALSE},
     variations : BandOverallUp \X BandOverallDown \X BandShapes
                      \X BandShapes,
     unweighted : {<< >>}]
        \cup [nominal : BandNominals, statistical : {TRUE},
              variations : {<< >>}, unweighted : BandUnweighted]

InitBand ==
    /\ ObjectsEmpty /\ CacheIdle /\ EstIdle
    /\ fin \in BandArguments
    /\ fop = "none"
    /\ fout = << >>

\* uncertainty_band(process, region, calculation, uncertainty, estimation)
UncertaintyBandCalled ==
    /\ fop = "none"
    /\ fop' = "uncertainty_band"
    /\ fout' = uncertainty_band(fin.nominal, fin.statistical, fin.variations,
                                fin.unweighted)
    /\ UNCHANGED <<fin, objVars, cacheVars, estVars>>

NextBand == UncertaintyBandCalled

SpecBand == InitBand /\ [][NextBand]_vars

----------------------------------------------------------------------------
(* Claims about uncertainty_band *)

\* The square of the fractional variation of a component: 0 for None.
VariationSquared(component) ==
    IF component.ty = "NoneType" THEN Number(0)
    ELSE Squared(Minus(component, Number(1)))

\* The shape component as an overall one.
ShapeAsOverall(shape) ==
    IF shape.ty = "NoneType" THEN None
    ELSE Quotient(to_overall(shape.bins, fin.nominal))

\* The square of the statistical variation of a bin: 1 / unweighted when
\* the nominal and the unweighted contents are positive.
StatisticalSquared(bin) ==
    IF fin.nominal[bin] > 0 /\ fin.unweighted[bin] > 0
    THEN Real(1, fin.unweighted[bin], 1)
    ELSE Number(0)

\* The sum of the squared fractional variations of a bin, up (side 1) or
\* down (side 2).
SquaredVariations(bin, side) ==
    IF fin.statistical THEN StatisticalSquared(bin)
    ELSE Add(VariationSquared(fin.variations[side]),
             VariationSquared(ShapeAsOverall(fin.variations[side + 2])))

StatisticalBandWitness ==
    /\ fop = "uncertainty_band"
    /\ fin.statistical
    /\ fin.nominal[1] = 2
    /\ fin.unweighted[1] = 4
    /\ fout.v[1].eyhigh = Number(1)
    /\ fout.v[1].eylow = Number(1)

----------------------------------------------------------------------------
(* Claims about Region.weighted and the regions with weighting disabled *)

\* The keys of a count and of a histogram in the persistent cache, for the
\* region r.
RegionKeys(r) ==
    <<CountCacheMapper(ProcessA, r),
      CacheMapper(ProcessA, r, <<Str_x>>, <<BinningX>>, NoHints)>>

\* selection_weight() of every region with weighting disabled: the
\* selection of the variations applied in order, and the empty weight.
UnweightedSelection ==
    \A i \in DOMAIN regions :
        ~regions[i].weighted =>
            selection_weight(regions[i]) =
                <<Composed(regions[i].variations,
                           <<regions[i].selection, regions[i].weight>>)[1],
                  EmptyStr>>

\* weighted(b) has returned: the receiver itself for its own setting, else a
\* new region that differs from the receiver in the weighted flag only, with
\* another hash and other cache keys.
WeightedReturned ==
    last'.op = "weighted" =>
        IF last'.arg = regions[last'.recv].weighted
        THEN /\ last'.res = last'.recv
             /\ regions' = regions
        ELSE /\ last'.res \notin DOMAIN regions
             /\ regions'[last'.res] =
                    [regions[last'.recv] EXCEPT !.weighted = last'.arg]
             /\ RegionHash(regions'[last'.res])
                    # RegionHash(regions[last'.recv])
             /\ RegionKeys(regions'[last'.res])[1]
                    # RegionKeys(regions[last'.recv])[1]
             /\ RegionKeys(regions'[last'.res])[2]
                    # RegionKeys(regions[last'.recv])[2]

\* C30: selection_weight() of a region with weighting disabled is the
\* selection with all variations applied in order and the empty string as
\* weight; weighted(b) returns the receiver when b is its setting and else
\* a copy that differs in the weighted flag only, whose hash and cache keys
\* differ from the receiver's.
WeightedFingerprint ==
    /\ []UnweightedSelection
    /\ [][WeightedReturned]_vars

\* weighted(False) has returned a copy of a weighted region with a
\* variation; its weight is empty, its selection that of the receiver, its
\* hash another.
WeightedFingerprintWitness ==
    /\ last.op = "weighted"
    /\ last.arg = FALSE
    /\ last.res # last.recv
    /\ regions[last.recv].weighted
    /\ ~regions[last.res].weighted
    /\ regions[last.recv].variations # << >>
    /\ selection_weight(regions[last.recv])[2] # EmptyStr
    /\ selection_weight(regions[last.res])[2] = EmptyStr
    /\ selection_weight(regions[last.res])[1]
           = selection_weight(regions[last.recv])[1]
    /\ RegionHash(regions[last.res]) # RegionHash(regions[last.recv])

\* weighted(b) has returned its receiver.
WeightedSelfWitness ==
    /\ last.op = "weighted"
    /\ last.res = last.recv
    /\ last.arg = regions[last.recv].weighted

----------------------------------------------------------------------------
(* uncertainty.py: combined_uncertainty_band.  The bands are objects: a    *)
(* heap holds the points of each graph, a band is an index of the heap.    *)

\* Bands in the list given to combined_uncertainty_band.
MaxBands == 2

\* A TGraphAsymmErrors by its identity.
Graph(id) == [ty |-> "TGraphAsymmErrors", v |-> id]

\* A Clone that returns the graph itself.
CloneGraphAliased(heap, graph) == Result(heap, graph)

\* graph.Clone(uuid4().hex): a new graph with the points of graph
CloneGraph(heap, graph) ==
    Result(Append(heap, heap[graph.v]), Graph(Len(heap) + 1))

\* b.GetErrorYhigh(i) for b in bands, from the k-th band on
RECURSIVE ErrorsYhigh(_, _, _, _)
ErrorsYhigh(heap, bands, i, k) ==
    IF k > Len(bands) THEN << >>
    ELSE <<heap[bands[k].v][i].eyhigh>> \o ErrorsYhigh(heap, bands, i, k + 1)

\* b.GetErrorYlow(i) for b in bands, from the k-th band on
RECURSIVE ErrorsYlow(_, _, _, _)
ErrorsYlow(heap, bands, i, k) ==
    IF k > Len(bands) THEN << >>
    ELSE <<heap[bands[k].v][i].eylow>> \o ErrorsYlow(heap, bands, i, k + 1)

\* The loop of combined_uncertainty_band from point i on (the points are
\* counted from 1, as the bins of base are): SetPoint, SetPointEYhigh and
\* SetPointEYlow on result, one after the other.
RECURSIVE CombinedLoop(_, _, _, _, _)
CombinedLoop(heap, bands, base, result, i) ==
    IF i > Len(heap[result.v]) THEN heap
    ELSE LET content ==
                 IF base.given
                 THEN [heap EXCEPT ![result.v][i].y = Number(base.bins[i])]
                 ELSE heap
             high ==
                 [content EXCEPT ![result.v][i].eyhigh =
                     sum_quadrature(ErrorsYhigh(content, bands, i, 1))]
             low ==
                 [high EXCEPT ![result.v][i].eylow =
                     sum_quadrature(ErrorsYlow(high, bands, i, 1))]
         IN  CombinedLoop(low, bands, base, result, i + 1)

\* combined_uncertainty_band
combined_uncertainty_band(heap, bands, base) ==
    IF Len(bands) = 0 THEN Result(heap, Raised("ValueError"))
    ELSE LET clone == CloneGraph(heap, bands[1])
         IN  Result(CombinedLoop(clone.heap, bands, base, clone.result, 1),
                    clone.result)

\* The errors of the input bands, and the band with the errors high and low
\* at the odd points and low and high at the even ones.
BandErrorValues == {0, 3, 4}
InputBand(high, low) ==
    [point \in 1..MaxBins |->
        Point(point, Number(10 + high),
              Number(IF point % 2 = 1 THEN high ELSE low),
              Number(IF point % 2 = 1 THEN low ELSE high))]
InputBands == {InputBand(high, low) : high, low \in BandErrorValues}

\* The heaps of up to MaxBands bands, the list of all bands of the heap,
\* and the base: None or a histogram.
BandHeaps == UNION {[1..n -> InputBands] : n \in 0..MaxBands}
BandList(heap) == [k \in 1..Len(heap) |-> Graph(k)]
Bases ==
    {[given |-> FALSE, bins |-> << >>]}
        \cup [given : {TRUE}, bins : BinContents]

InitCombined ==
    /\ ObjectsEmpty /\ CacheIdle /\ EstIdle
    /\ fin \in [heap : BandHeaps, base : Bases]
    /\ fop = "none"
    /\ fout = << >>

\* combined_uncertainty_band(bands, base)
CombinedUncertaintyBandCalled ==
    /\ fop = "none"
    /\ fop' = "combined_uncertainty_band"
    /\ fout' = combined_uncertainty_band(fin.heap, BandList(fin.heap),
                                         fin.base)
    /\ UNCHANGED <<fin, objVars, cacheVars, estVars>>

NextCombined == CombinedUncertaintyBandCalled

SpecCombined == InitCombined /\ [][NextCombined]_vars

----------------------------------------------------------------------------
(* Claims about combined_uncertainty_band *)

\* The sum of the squares of the errors of the first k input bands at point
\* i, high (side 1) or low (side 2).
RECURSIVE SquaredErrors(_, _, _)
SquaredErrors(i, side, k) ==
    IF k = 0 THEN Number(0)
    ELSE Add(SquaredErrors(i, side, k - 1),
             Squared(IF side = 1 THEN fin.heap[k][i].eyhigh
                     ELSE fin.heap[k][i].eylow))

CombinedEmptyWitness ==
    /\ fop = "combined_uncertainty_band"
    /\ fin.heap = << >>
    /\ fout.result.ty = "ValueError"

====
